---- MODULE Spec2Model ----
(***************************************************************************)
(* Model of the remote Owlet MCP server (src/remote_mcp_server.py): the    *)
(* rate_limit decorator, validate_query, sanitize_output, the lazily       *)
(* initialised api_client / devices globals, the search and fetch tools,    *)
(* and cleanup() at the end of the transport run.                          *)
(*                                                                         *)
(* Python strings that the code inspects (queries, document ids, serials)  *)
(* are sequences of one-character strings, so that len(), strip(),         *)
(* lower(), the substring test `term in query_lower` and split("_", 1)     *)
(* are computed the way the code computes them.  Strings the code only     *)
(* copies around (names, titles, messages) are TLA+ strings.               *)
(***************************************************************************)
EXTENDS Integers, Sequences, FiniteSets, Bags, TLC

VARIABLES
    now,             \* value time.time() returns (seconds)
    environ,         \* TRUE iff OWLET_USER and OWLET_PASSWORD are both set
    request_counts,  \* module global request_counts: client_id -> list of request times
    api_client,      \* module global api_client
    devices,         \* module global devices (the cached roster)
    last,            \* observation of the most recent tool invocation
    process,         \* "running", or the way the transport run ended
    closed,          \* number of close() calls made on the API client
    data,            \* the argument of a call of sanitize_output, validate_query,
                     \* a formatter or control_base_station
    sanitized,       \* what that call returned
    tasks,           \* the tool invocations suspended in a DeviceRegistry call
    clients,         \* how far authenticate() got on each OwletAPI object constructed
    admissions       \* per caller, the times of the admitted calls still in the window

vars ==
    <<now, environ, request_counts, api_client, devices, last, process, closed,
      data, sanitized, tasks, clients, admissions>>

\* what the specifications that run one invocation at a time leave alone
co_vars == <<tasks, clients, admissions>>

----------------------------------------------------------------------------
(* Program constants                                                       *)

REQUEST_LIMIT == 100

TIME_WINDOW == 60

MaxQueryLength == 500

(* Bounds of the exploration                                               *)

\* the clock stops advancing once it has reached MaxTime
MaxTime == 60

\* Spec explores behaviours in which every bucket holds at most MaxCalls request times
MaxCalls == 2

\* the clock advances in steps of half a window
TickStep == TIME_WINDOW \div 2

----------------------------------------------------------------------------
(* Strings                                                                 *)

LowerMap ==
    [ A |-> "a", B |-> "b", C |-> "c", D |-> "d", E |-> "e", F |-> "f",
      G |-> "g", H |-> "h", I |-> "i", J |-> "j", K |-> "k", L |-> "l",
      M |-> "m", N |-> "n", O |-> "o", P |-> "p", Q |-> "q", R |-> "r",
      S |-> "s", T |-> "t", U |-> "u", V |-> "v", W |-> "w", X |-> "x",
      Y |-> "y", Z |-> "z" ]

\* str.lower() on one character
LowerChar(c) == IF c \in DOMAIN LowerMap THEN LowerMap[c] ELSE c

\* str.lower()
Lower(s) == [i \in 1..Len(s) |-> LowerChar(s[i])]

IsSpace(c) == c \in {" ", "\t", "\n", "\r"}

\* str.strip(): drop leading and trailing whitespace
Strip(s) ==
    LET keep == {i \in 1..Len(s) : ~IsSpace(s[i])}
    IN  IF keep = {} THEN <<>>
        ELSE LET lo == CHOOSE i \in keep : \A j \in keep : i <= j
                 hi == CHOOSE i \in keep : \A j \in keep : j <= i
             IN  SubSeq(s, lo, hi)

\* the substring test `term in s`
Contains(s, term) ==
    \E i \in 0..(Len(s) - Len(term)) :
        \A j \in 1..Len(term) : s[i + j] = term[j]

\* any(term in s for term in terms)
AnyTermIn(s, terms) == \E term \in terms : Contains(s, term)

\* variant: s.rsplit("_", 1), the parts around the last "_"
Split1_last(s) ==
    LET us == {i \in 1..Len(s) : s[i] = "_"}
    IN  IF us = {} THEN <<s>>
        ELSE LET k == CHOOSE i \in us : \A j \in us : j <= i
             IN  <<SubSeq(s, 1, k - 1), SubSeq(s, k + 1, Len(s))>>

\* s.split("_", 1): the parts around the first "_", or the whole string
Split1(s) ==
    LET us == {i \in 1..Len(s) : s[i] = "_"}
    IN  IF us = {} THEN <<s>>
        ELSE LET k == CHOOSE i \in us : \A j \in us : i <= j
             IN  <<SubSeq(s, 1, k - 1), SubSeq(s, k + 1, Len(s))>>

\* f"{prefix}_{serial}"
MakeId(prefix, serial) == prefix \o <<"_">> \o serial

Repeat(c, n) == [i \in 1..n |-> c]

----------------------------------------------------------------------------
(* Trigger keywords of the search tool, and category names                 *)

vitals_terms ==
    { <<"v", "i", "t", "a", "l", "s">>,
      <<"h", "e", "a", "r", "t">>,
      <<"o", "x", "y", "g", "e", "n">>,
      <<"t", "e", "m", "p", "e", "r", "a", "t", "u", "r", "e">>,
      <<"c", "u", "r", "r", "e", "n", "t">>,
      <<"n", "o", "w">> }

alerts_terms ==
    { <<"a", "l", "e", "r", "t">>,
      <<"w", "a", "r", "n", "i", "n", "g">>,
      <<"c", "r", "i", "t", "i", "c", "a", "l">>,
      <<"a", "l", "a", "r", "m">>,
      <<"p", "r", "o", "b", "l", "e", "m">> }

status_terms ==
    { <<"d", "e", "v", "i", "c", "e">>,
      <<"s", "t", "a", "t", "u", "s">>,
      <<"b", "a", "t", "t", "e", "r", "y">>,
      <<"c", "o", "n", "n", "e", "c", "t", "i", "o", "n">>,
      <<"b", "a", "s", "e", " ", "s", "t", "a", "t", "i", "o", "n">> }

wellness_terms ==
    { <<"w", "e", "l", "l", "n", "e", "s", "s">>,
      <<"s", "u", "m", "m", "a", "r", "y">>,
      <<"o", "v", "e", "r", "v", "i", "e", "w">>,
      <<"h", "e", "a", "l", "t", "h">>,
      <<"r", "e", "p", "o", "r", "t">> }

history_terms ==
    { <<"h", "i", "s", "t", "o", "r", "y">>,
      <<"h", "i", "s", "t", "o", "r", "i", "c", "a", "l">>,
      <<"t", "r", "e", "n", "d", "s">>,
      <<"p", "a", "s", "t">>,
      <<"d", "a", "t", "a">> }

live_terms ==
    { <<"l", "i", "v", "e">>,
      <<"f", "e", "e", "d">>,
      <<"c", "a", "m", "e", "r", "a">>,
      <<"v", "i", "d", "e", "o">>,
      <<"s", "t", "r", "e", "a", "m", "i", "n", "g">>,
      <<"r", "e", "a", "l", "-", "t", "i", "m", "e">> }

S_vitals == <<"v", "i", "t", "a", "l", "s">>

S_alerts == <<"a", "l", "e", "r", "t", "s">>

S_status == <<"s", "t", "a", "t", "u", "s">>

S_wellness == <<"w", "e", "l", "l", "n", "e", "s", "s">>

S_history == <<"h", "i", "s", "t", "o", "r", "y">>

S_live == <<"l", "i", "v", "e">>

S_device == <<"d", "e", "v", "i", "c", "e">>

S_live_feed == <<"l", "i", "v", "e", "_", "f", "e", "e", "d">>

S_device_info == <<"d", "e", "v", "i", "c", "e", "_", "i", "n", "f", "o">>

S_error_invalid_query ==
    <<"e", "r", "r", "o", "r", "_", "i", "n", "v", "a", "l", "i", "d", "_",
      "q", "u", "e", "r", "y">>

S_no_devices == <<"n", "o", "_", "d", "e", "v", "i", "c", "e", "s">>

S_error == <<"e", "r", "r", "o", "r">>

\* the categories search tests, in the order of its if-statements
SearchCategories == <<"vitals", "alerts", "status", "wellness", "history", "live">>

\* the seven data types fetch dispatches on
Categories == {"vitals", "alerts", "status", "wellness", "history", "live", "device"}

\* the id prefix of a category
CategoryPrefix(cat) ==
    CASE cat = "vitals"   -> S_vitals
      [] cat = "alerts"   -> S_alerts
      [] cat = "status"   -> S_status
      [] cat = "wellness" -> S_wellness
      [] cat = "history"  -> S_history
      [] cat = "live"     -> S_live
      [] cat = "device"   -> S_device

\* the trigger keywords search tests for a category
Terms(cat) ==
    CASE cat = "vitals"   -> vitals_terms
      [] cat = "alerts"   -> alerts_terms
      [] cat = "status"   -> status_terms
      [] cat = "wellness" -> wellness_terms
      [] cat = "history"  -> history_terms
      [] cat = "live"     -> live_terms

----------------------------------------------------------------------------
(* validate_query and sanitize_output                                      *)

\* variant: no length limit
validate_query_nolimit(query) ==
    IF Len(query) = 0 \/ Len(Strip(query)) = 0 THEN FALSE ELSE TRUE

\* variant: a query of exactly 500 characters is too long
validate_query_ge(query) ==
    IF Len(query) = 0 \/ Len(Strip(query)) = 0 THEN FALSE
    ELSE IF Len(query) >= MaxQueryLength THEN FALSE
    ELSE TRUE

\* validate_query(query)
validate_query(query) ==
    IF Len(query) = 0 \/ Len(Strip(query)) = 0 THEN FALSE
    ELSE IF Len(query) > MaxQueryLength THEN FALSE
    ELSE TRUE

sensitive_fields == {"password", "token", "key", "secret"}

\* k.lower() for a dictionary key; the keys below are the mixed-case
\* spellings that occur in the model, every other key is already lower-case
LowerKey(k) ==
    CASE k = "Password" -> "password"
      [] k = "TOKEN"    -> "token"
      [] k = "Key"      -> "key"
      [] k = "SECRET"   -> "secret"
      [] OTHER          -> k

\* sanitize_output on a dict whose values are not containers
sanitize_flat(d) ==
    [k \in {x \in DOMAIN d : LowerKey(x) \notin sensitive_fields} |-> d[k]]

\* sanitize_output on a Document: a dict whose only container value is
\* the nested dict "metadata" (text is a string, json.dumps output included)
sanitize_document(d) ==
    [k \in {x \in DOMAIN d : LowerKey(x) \notin sensitive_fields} |->
        IF k = "metadata" THEN sanitize_flat(d[k]) ELSE d[k]]

\* sanitize_output on the results list of search
sanitize_results(results) ==
    [i \in 1..Len(results) |-> sanitize_document(results[i])]

\* Python values handed to sanitize_output: a dict is <<"dict", f>>, f a
\* function from its keys (character sequences) to values; a list is
\* <<"list", s>>, s a sequence of values; any other value is <<"atom", x>>
Dict(f) == <<"dict", f>>

List(s) == <<"list", s>>

Atom(x) == <<"atom", x>>

\* no value yet
NoValue == <<"none", "">>

\* the entries of sensitive_fields as character sequences
sensitive_field_chars ==
    { <<"p", "a", "s", "s", "w", "o", "r", "d">>,
      <<"t", "o", "k", "e", "n">>,
      <<"k", "e", "y">>,
      <<"s", "e", "c", "r", "e", "t">> }

\* variant: the key is compared without lower()
KeyIsSensitive_exact(k) == k \in sensitive_field_chars

\* variant: a key that contains a sensitive word is dropped as well
KeyIsSensitive_substring(k) == AnyTermIn(Lower(k), sensitive_field_chars)

\* the negation of the comprehension's filter: k.lower() in sensitive_fields
KeyIsSensitive(k) == Lower(k) \in sensitive_field_chars

\* sanitize_output(data)
RECURSIVE sanitize_output(_)
sanitize_output(v) ==
    IF v[1] = "dict"
    THEN Dict([k \in {x \in DOMAIN v[2] : ~KeyIsSensitive(x)} |->
                  sanitize_output(v[2][k])])
    ELSE IF v[1] = "list"
    THEN List([i \in 1..Len(v[2]) |-> sanitize_output(v[2][i])])
    ELSE v

----------------------------------------------------------------------------
(* The rate_limit decorator                                                *)

\* request_counts.get(client_id, [])
GetCounts(rc, client_id) == IF client_id \in DOMAIN rc THEN rc[client_id] ELSE <<>>

\* variant: calls without identity are counted per tool
ClientId_per_tool(kwargs) ==
    IF "client_id" \in DOMAIN kwargs THEN kwargs["client_id"]
    ELSE IF "query" \in DOMAIN kwargs THEN "unknown search"
    ELSE "unknown fetch"

\* kwargs.get('client_id', 'unknown')
ClientId(kwargs) ==
    IF "client_id" \in DOMAIN kwargs THEN kwargs["client_id"] ELSE "unknown"

\* the filter of the clean-up comprehension: req_time > cutoff_time
KeepRequest(req_time, cutoff_time) == req_time > cutoff_time

\* the request times of a client that survive the clean-up at current_time
CleanOld(rc, client_id, current_time) ==
    SelectSeq(GetCounts(rc, client_id),
              LAMBDA req_time : KeepRequest(req_time, current_time - TIME_WINDOW))

\* variant: off by one
LimitReached_gt(n) == n > REQUEST_LIMIT

\* the rate-limit test: len(request_counts.get(client_id, [])) >= REQUEST_LIMIT
LimitReached(n) == n >= REQUEST_LIMIT

\* variant: the request time is recorded before the limit is tested
rate_limit_record_first(rc, kwargs, current_time) ==
    LET client_id == ClientId(kwargs)
        cleaned   == CleanOld(rc, client_id, current_time)
        rc1       == [k \in DOMAIN rc \cup {client_id} |->
                         IF k = client_id THEN Append(cleaned, current_time) ELSE rc[k]]
    IN  [admitted |-> ~LimitReached(Len(cleaned)), request_counts |-> rc1]

\* variant: the cleaned list is stored after the append and overwrites it
rate_limit_lost_update(rc, kwargs, current_time) ==
    LET client_id == ClientId(kwargs)
        cleaned   == CleanOld(rc, client_id, current_time)
        rc1       == [k \in DOMAIN rc \cup {client_id} |->
                         IF k = client_id THEN cleaned ELSE rc[k]]
    IN  [admitted |-> ~LimitReached(Len(cleaned)), request_counts |-> rc1]

\* the wrapper up to the call of the wrapped function: the decision and the
\* new value of request_counts
rate_limit(rc, kwargs, current_time) ==
    LET client_id == ClientId(kwargs)
        cleaned   == CleanOld(rc, client_id, current_time)
        rc1       == [k \in DOMAIN rc \cup {client_id} |->
                         IF k = client_id THEN cleaned ELSE rc[k]]
    IN  IF LimitReached(Len(cleaned))
        THEN [admitted |-> FALSE, request_counts |-> rc1]
        ELSE [admitted |-> TRUE,
              request_counts |-> [rc1 EXCEPT ![client_id] = Append(@, current_time)]]

----------------------------------------------------------------------------
(* Errors and responses                                                    *)

NoError == [type |-> "none", msg |-> "", cause |-> "none"]

\* an exception: its class, its message, and the class of the exception it
\* was built from (str(e) is part of the message of a re-raised error)
Error(type, msg, cause) == [type |-> type, msg |-> msg, cause |-> cause]

\* what a DeviceRegistry call raises
OwletConnectionError == Error("OwletConnectionError", "request failed", "none")

OwletDevicesError == Error("OwletDevicesError", "device listing failed", "none")

----------------------------------------------------------------------------
(* get_authenticated_api and get_devices                                   *)

\* the DeviceRegistry requests a call can make
AuthenticateRequest == <<"authenticate", <<>>>>

ListRequest == <<"get_devices", <<>>>>

SnapshotRequest(serial) == <<"update_properties", serial>>

\* variant: the client stays cached when authenticate() raises
get_authenticated_api_keep(client, auth_ok) ==
    IF client # "None"
    THEN [raised |-> FALSE, err |-> NoError, api_client |-> client, trace |-> <<>>]
    ELSE IF ~environ
    THEN [raised |-> TRUE,
          err |-> Error("OwletAuthenticationError", "Authentication required", "none"),
          api_client |-> "None", trace |-> <<>>]
    ELSE IF auth_ok
    THEN [raised |-> FALSE, err |-> NoError, api_client |-> "OwletAPI",
          trace |-> <<AuthenticateRequest>>]
    ELSE [raised |-> TRUE,
          err |-> Error("OwletAuthenticationError", "Failed to authenticate", "Exception"),
          api_client |-> "OwletAPI", trace |-> <<AuthenticateRequest>>]

\* get_authenticated_api(): client is the global api_client, auth_ok tells
\* whether api_client.authenticate() succeeds; trace lists the DeviceRegistry
\* requests made
get_authenticated_api(client, auth_ok) ==
    IF client # "None"
    THEN [raised |-> FALSE, err |-> NoError, api_client |-> client, trace |-> <<>>]
    ELSE IF ~environ
    THEN [raised |-> TRUE,
          err |-> Error("OwletAuthenticationError", "Authentication required", "none"),
          api_client |-> "None", trace |-> <<>>]
    ELSE IF auth_ok
    THEN [raised |-> FALSE, err |-> NoError, api_client |-> "OwletAPI",
          trace |-> <<AuthenticateRequest>>]
    ELSE [raised |-> TRUE,
          err |-> Error("OwletAuthenticationError", "Failed to authenticate", "Exception"),
          api_client |-> "None", trace |-> <<AuthenticateRequest>>]

\* get_devices(): devs is the global devices, listing the outcome of
\* api.get_devices()
get_devices(devs, client, auth_ok, listing) ==
    IF devs # <<>>
    THEN [raised |-> FALSE, err |-> NoError, devices |-> devs,
          api_client |-> client, trace |-> <<>>]
    ELSE LET a == get_authenticated_api(client, auth_ok)
         IN  IF a.raised
             THEN [raised |-> TRUE, err |-> a.err, devices |-> devs,
                   api_client |-> a.api_client, trace |-> a.trace]
             ELSE IF ~listing.ok
             THEN [raised |-> TRUE, err |-> OwletDevicesError, devices |-> devs,
                   api_client |-> a.api_client,
                   trace |-> Append(a.trace, ListRequest)]
             ELSE [raised |-> FALSE, err |-> NoError, devices |-> listing.response,
                   api_client |-> a.api_client,
                   trace |-> Append(a.trace, ListRequest)]

----------------------------------------------------------------------------
(* Devices and telemetry snapshots the DeviceRegistry can hand out         *)

Sock1 ==
    [serial |-> <<"S", "1">>, name |-> "Nursery", model |-> "SS3",
     version |-> 3, connection_status |-> "Online"]

\* a serial that itself contains the separator
Sock2 ==
    [serial |-> <<"A", "_", "2">>, name |-> "Crib", model |-> "SS2",
     version |-> 2, connection_status |-> "Offline"]

\* a serial of no device
UnknownSerial == <<"U", "N", "K">>

Rosters == {<<>>, <<Sock1>>, <<Sock1, Sock2>>}

\* outcomes of api.get_devices()
Listings ==
    {[ok |-> FALSE, response |-> <<>>]} \cup {[ok |-> TRUE, response |-> r] : r \in Rosters}

\* a snapshot without any property
NoProperties == [k \in {} |-> 0]

\* all vitals reported and normal, no alert
CalmProperties ==
    [heart_rate |-> 120, oxygen_saturation |-> 98, skin_temperature |-> 365,
     sleep_state |-> 2, movement |-> 3, battery_percentage |-> 80,
     monitoring_start_time |-> "in_range"]

\* abnormal vitals, active alerts, and a monitoring_start_time that
\* datetime.fromtimestamp rejects
AlarmProperties ==
    [heart_rate |-> 50, oxygen_saturation |-> 90, skin_temperature |-> 36,
     sleep_state |-> 7, movement |-> 9,
     critical_oxygen_alert |-> TRUE, low_battery_alert |-> TRUE,
     sock_off |-> FALSE, monitoring_start_time |-> "out_of_range"]

\* outcomes of device.update_properties()
Snapshots ==
    { [ok |-> FALSE, properties |-> NoProperties],
      [ok |-> TRUE,  properties |-> NoProperties],
      [ok |-> TRUE,  properties |-> CalmProperties],
      [ok |-> TRUE,  properties |-> AlarmProperties] }

\* properties.get(key, default)
PGet(properties, key, default) ==
    IF key \in DOMAIN properties THEN properties[key] ELSE default

\* the truth value of properties.get(key) for a boolean property
Flag(properties, key) == key \in DOMAIN properties /\ properties[key] = TRUE

\* datetime.fromtimestamp(start_time) raises
FromTimestampRaises(start_time) == start_time = "out_of_range"

\* skin temperature in tenths of a degree Celsius:
\* raw / 10 if raw > 100 else raw
TempTenths(raw) == IF raw > 100 THEN raw ELSE raw * 10

----------------------------------------------------------------------------
(* Summary Documents of search                                             *)

Doc(id, title, text, url) == [id |-> id, title |-> title, text |-> text, url |-> url]

\* format_vitals_for_search
format_vitals_for_search(properties, device_name, device_serial) ==
    LET hr == IF "heart_rate" \in DOMAIN properties
              THEN << <<"HR", properties["heart_rate"], "BPM">> >> ELSE <<>>
        ox == IF "oxygen_saturation" \in DOMAIN properties
              THEN << <<"O2", properties["oxygen_saturation"], "%">> >> ELSE <<>>
        tc == IF "skin_temperature" \in DOMAIN properties
              THEN << <<"Temp", TempTenths(properties["skin_temperature"]), "C/10">> >>
              ELSE <<>>
        summary_parts == hr \o ox \o tc
    IN  Doc(MakeId(S_vitals, device_serial),
            <<"Current Vitals", device_name>>,
            IF summary_parts # <<>> THEN summary_parts
            ELSE << <<"Monitoring data available", 0, "">> >>,
            <<"/device/", device_serial, "">>)

alert_keys ==
    <<"critical_oxygen_alert", "critical_battery_alert", "low_oxygen_alert",
      "high_oxygen_alert", "low_heart_rate_alert", "high_heart_rate_alert",
      "low_battery_alert", "lost_power_alert", "sock_disconnected", "sock_off">>

\* "critical" in key, for the keys of alert_keys
IsCriticalKey(key) == key \in {"critical_oxygen_alert", "critical_battery_alert"}

\* format_alerts_for_search
format_alerts_for_search(properties, device_name, device_serial) ==
    LET active == {i \in DOMAIN alert_keys : Flag(properties, alert_keys[i])}
        alert_count == Cardinality(active)
        critical_alerts == Cardinality({i \in active : IsCriticalKey(alert_keys[i])})
    IN  Doc(MakeId(S_alerts, device_serial),
            <<"Alert Status", device_name>>,
            IF alert_count = 0 THEN << <<"No active alerts - monitoring normally", 0, 0>> >>
            ELSE IF critical_alerts > 0
            THEN << <<"critical alerts, total alerts", critical_alerts, alert_count>> >>
            ELSE << <<"active alerts", alert_count, alert_count>> >>,
            <<"/device/", device_serial, "/alerts">>)

\* variant: the status block reads properties["battery_percentage"]
SummaryRaises_index(cat, properties) ==
    \/ /\ cat = "history"
       /\ "monitoring_start_time" \in DOMAIN properties
       /\ FromTimestampRaises(properties["monitoring_start_time"])
    \/ /\ cat = "status"
       /\ "battery_percentage" \notin DOMAIN properties

\* does the summary block of search for a category raise on this snapshot?
SummaryRaises(cat, properties) ==
    /\ cat = "history"
    /\ "monitoring_start_time" \in DOMAIN properties
    /\ FromTimestampRaises(properties["monitoring_start_time"])

\* the Document a category's block of search appends for one device
SummaryDoc(cat, device, properties) ==
    CASE cat = "vitals" ->
           format_vitals_for_search(properties, device.name, device.serial)
      [] cat = "alerts" ->
           format_alerts_for_search(properties, device.name, device.serial)
      [] cat = "status" ->
           Doc(MakeId(S_status, device.serial),
               <<"Device Status", device.name>>,
               << <<"Connection",
                    IF device.connection_status = "Online" THEN "Connected"
                    ELSE device.connection_status,
                    "">>,
                  <<"Battery", "", PGet(properties, "battery_percentage", 0)>> >>,
               <<"/device/", device.serial, "/status">>)
      [] cat = "wellness" ->
           Doc(MakeId(S_wellness, device.serial),
               <<"Wellness Summary", device.name>>,
               << <<"HR", "heart_rate" \in DOMAIN properties,
                    PGet(properties, "heart_rate", 0)>>,
                  <<"O2", "oxygen_saturation" \in DOMAIN properties,
                    PGet(properties, "oxygen_saturation", 0)>>,
                  <<"Status",
                    Flag(properties, "critical_oxygen_alert")
                        \/ Flag(properties, "critical_battery_alert"),
                    0>> >>,
               <<"/device/", device.serial, "/wellness">>)
      [] cat = "history" ->
           Doc(MakeId(S_history, device.serial),
               <<"Historical Data", device.name>>,
               << <<IF "monitoring_start_time" \in DOMAIN properties
                    THEN "Monitoring for Nh" ELSE "Session active",
                    "trends and patterns available">> >>,
               <<"/device/", device.serial, "/history">>)
      [] cat = "live" ->
           Doc(MakeId(S_live, device.serial),
               <<"Live Feed Access", device.name>>,
               << <<"Sock v", device.version,
                    IF device.version = 3 THEN "Full live monitoring"
                    ELSE "Real-time vitals">> >>,
               <<"/device/", device.serial, "/live">>)

\* the generic Document of the fallback loop of search
GenericDoc(device) ==
    Doc(MakeId(S_device, device.serial),
        <<"Owlet Device", device.name>>,
        << <<"Model", device.model>>, <<"Status", device.connection_status>> >>,
        <<"/device/", device.serial, "">>)

InvalidQueryDoc ==
    Doc(S_error_invalid_query, <<"Invalid Query", "">>,
        << <<"Query validation failed. Please provide a valid search query.">> >>,
        <<"", <<>>, "">>)

NoDevicesDoc ==
    Doc(S_no_devices, <<"No Owlet Devices Found", "">>,
        << <<"No Owlet devices are currently available in your account.">> >>,
        <<"", <<>>, "">>)

\* variant: the error Document lacks its url
SearchErrorDoc_nourl(err) ==
    [id |-> S_error, title |-> <<"Search Error", "">>,
     text |-> << <<"Unable to search monitoring data", err.type, err.msg>> >>]

\* the Document of the outer `except Exception as e` of search
SearchErrorDoc(err) ==
    Doc(S_error, <<"Search Error", "">>,
        << <<"Unable to search monitoring data", err.type, err.msg>> >>,
        <<"", <<>>, "">>)

----------------------------------------------------------------------------
(* Detailed Documents of fetch                                             *)

\* variant: the limits 60 and 160 are not normal
HeartRateStatus_exclusive(hr) == IF 60 < hr /\ hr < 160 THEN "normal" ELSE "attention_needed"

\* the heart-rate classification of the detailed formatters
HeartRateStatus(hr) == IF 60 <= hr /\ hr <= 160 THEN "normal" ELSE "attention_needed"

\* the oxygen classification of the detailed formatters
OxygenStatus(ox) == IF ox >= 95 THEN "normal" ELSE "attention_needed"

\* sleep_states.get(value, "Unknown")
SleepState(v) ==
    CASE v = 0 -> "Awake" [] v = 1 -> "Light Sleep" [] v = 2 -> "Deep Sleep"
      [] OTHER -> "Unknown"

\* (temp_c * 9/5) + 32, in hundredths of a degree Fahrenheit
FahrenheitHundredths(tenths_c) == tenths_c * 18 + 3200

Metadata(device, data_type) ==
    [source |-> "owlet_api", device_serial |-> device.serial,
     data_type |-> data_type, timestamp |-> now]

DetailDoc(id, title, text, url, metadata) ==
    [id |-> id, title |-> title, text |-> text, url |-> url, metadata |-> metadata]

\* the "vitals" dict of _generate_vitals_content
VitalsBlock(properties) ==
    [k \in DOMAIN properties \cap
           {"heart_rate", "oxygen_saturation", "skin_temperature", "sleep_state", "movement"} |->
        CASE k = "heart_rate" ->
               <<properties[k], "BPM", HeartRateStatus(properties[k])>>
          [] k = "oxygen_saturation" ->
               <<properties[k], "%", OxygenStatus(properties[k])>>
          [] k = "skin_temperature" ->
               <<TempTenths(properties[k]),
                 FahrenheitHundredths(TempTenths(properties[k])), "normal">>
          [] k = "sleep_state" ->
               <<properties[k], "", SleepState(properties[k])>>
          [] k = "movement" ->
               <<properties[k], "", IF properties[k] > 5 THEN "active" ELSE "calm">>]

\* the assessment of _generate_wellness_content
WellnessStatus(properties) ==
    LET hr_normal == IF "heart_rate" \in DOMAIN properties
                     THEN 60 <= properties["heart_rate"] /\ properties["heart_rate"] <= 160
                     ELSE TRUE
        ox_normal == IF "oxygen_saturation" \in DOMAIN properties
                     THEN properties["oxygen_saturation"] >= 95
                     ELSE TRUE
        critical_alerts ==
            \/ Flag(properties, "critical_oxygen_alert")
            \/ Flag(properties, "critical_battery_alert")
            \/ Flag(properties, "sock_disconnected")
            \/ Flag(properties, "sock_off")
    IN  IF critical_alerts THEN "attention_needed"
        ELSE IF hr_normal /\ ox_normal THEN "good"
        ELSE "monitoring"

\* the "current_vitals" dict of _generate_wellness_content
WellnessVitals(properties) ==
    [k \in DOMAIN properties \cap {"heart_rate", "oxygen_saturation", "sleep_state"} |->
        CASE k = "heart_rate" ->
               <<properties[k], HeartRateStatus(properties[k])>>
          [] k = "oxygen_saturation" ->
               <<properties[k], OxygenStatus(properties[k])>>
          [] k = "sleep_state" ->
               <<properties[k], SleepState(properties[k])>>]

\* does the detailed formatter of a data type raise on this snapshot?
DetailRaises(cat, properties) ==
    /\ cat \in {"wellness", "history"}
    /\ "monitoring_start_time" \in DOMAIN properties
    /\ FromTimestampRaises(properties["monitoring_start_time"])

\* the number of alerts _generate_alerts_content counts: <<total, critical>>
AlertSummary(properties) ==
    LET active == {i \in DOMAIN alert_keys : Flag(properties, alert_keys[i])}
    IN  <<Cardinality(active),
          Cardinality({i \in active : IsCriticalKey(alert_keys[i])})>>

_generate_vitals_content(device, properties) ==
    DetailDoc(MakeId(S_vitals, device.serial),
              <<"Current Vital Signs", device.name>>,
              [device |-> <<device.name, device.serial, device.model, device.version>>,
               vitals |-> VitalsBlock(properties),
               battery_percentage |-> PGet(properties, "battery_percentage", -1)],
              <<"/device/", device.serial, "">>,
              Metadata(device, S_vitals))

_generate_alerts_content(device, properties) ==
    DetailDoc(MakeId(S_alerts, device.serial),
              <<"Alert Status", device.name>>,
              [device |-> <<device.name, device.serial>>,
               alert_summary |-> AlertSummary(properties),
               wellness_alert |-> Flag(properties, "wellness_alert")],
              <<"/device/", device.serial, "/alerts">>,
              Metadata(device, S_alerts))

_generate_status_content(device, properties) ==
    DetailDoc(MakeId(S_status, device.serial),
              <<"Device Status", device.name>>,
              [device_info |-> <<device.name, device.serial, device.model, device.version>>,
               device_status |-> device.connection_status,
               battery_percentage |-> PGet(properties, "battery_percentage", -1)],
              <<"/device/", device.serial, "/status">>,
              Metadata(device, S_status))

_generate_wellness_content(device, properties) ==
    DetailDoc(MakeId(S_wellness, device.serial),
              <<"Wellness Summary", device.name>>,
              [device |-> <<device.name, device.serial>>,
               overall_status |-> WellnessStatus(properties),
               current_vitals |-> WellnessVitals(properties)],
              <<"/device/", device.serial, "/wellness">>,
              Metadata(device, S_wellness))

_generate_history_content(device, properties) ==
    DetailDoc(MakeId(S_history, device.serial),
              <<"Historical Data Access", device.name>>,
              [device |-> <<device.name, device.serial, device.version>>,
               session_started |-> "monitoring_start_time" \in DOMAIN properties,
               metrics |-> IF device.version = 3 THEN "sock3 metrics" ELSE "sock2 metrics"],
              <<"/device/", device.serial, "/history">>,
              Metadata(device, S_history))

_generate_live_content(device, properties) ==
    DetailDoc(MakeId(S_live, device.serial),
              <<"Live Feed Access", device.name>>,
              [device |-> <<device.name, device.serial, device.version>>,
               streaming_data |-> device.version = 3,
               monitoring_active |-> Flag(properties, "readings_flag")],
              <<"/device/", device.serial, "/live">>,
              Metadata(device, S_live_feed))

_generate_device_content(device, properties) ==
    DetailDoc(MakeId(S_device, device.serial),
              <<"Device Information", device.name>>,
              [device_details |-> <<device.name, device.serial, device.model, device.version>>,
               connection |-> device.connection_status,
               capabilities |-> CASE device.version = 3 -> "sock3 capabilities"
                                  [] device.version = 2 -> "sock2 capabilities"
                                  [] OTHER -> "basic capabilities"],
              <<"/device/", device.serial, "">>,
              Metadata(device, S_device_info))

----------------------------------------------------------------------------
(* The search tool                                                         *)

\* is the block of a category entered for this lower-cased query?
Matches(query_lower, cat) == AnyTermIn(query_lower, Terms(cat))

\* the categories whose block is entered
MatchedCategories(query_lower) ==
    {cat \in {SearchCategories[i] : i \in DOMAIN SearchCategories} :
        Matches(query_lower, cat)}

\* the body of the try block for one device, after update_properties has
\* returned: the category blocks run in order from SearchCategories[i],
\* matched being the categories whose keyword test succeeds; a block that
\* raises ends the body and keeps what was appended before
RECURSIVE CategoryBlocks(_, _, _, _, _)
CategoryBlocks(device, properties, matched, i, acc) ==
    IF i > Len(SearchCategories) THEN [raised |-> FALSE, docs |-> acc]
    ELSE LET cat == SearchCategories[i]
         IN  IF cat \notin matched
             THEN CategoryBlocks(device, properties, matched, i + 1, acc)
             ELSE IF SummaryRaises(cat, properties)
             THEN [raised |-> TRUE, docs |-> acc]
             ELSE CategoryBlocks(device, properties, matched, i + 1,
                                 Append(acc, SummaryDoc(cat, device, properties)))

\* one iteration of `for device in devices`: try ... except: continue
ProcessDevice(device, snapshot, matched) ==
    IF ~snapshot.ok THEN [raised |-> TRUE, docs |-> <<>>]
    ELSE CategoryBlocks(device, snapshot.properties, matched, 1, <<>>)

\* the device loop: the results list, and the serials whose iteration raised
RECURSIVE DeviceLoop(_, _, _, _, _, _)
DeviceLoop(devs, snaps, matched, i, results, failed) ==
    IF i > Len(devs) THEN [results |-> results, failed |-> failed]
    ELSE LET r == ProcessDevice(devs[i], snaps[devs[i].serial], matched)
         IN  DeviceLoop(devs, snaps, matched, i + 1, results \o r.docs,
                        IF r.raised THEN failed \cup {devs[i].serial} ELSE failed)

\* variants of the fallback: unconditional, first device only, absent
Fallback_always(results, devs) == results \o [i \in 1..Len(devs) |-> GenericDoc(devs[i])]

Fallback_first(results, devs) ==
    IF results = <<>> THEN <<GenericDoc(devs[1])>> ELSE results

Fallback_none(results, devs) == results

\* `if not results: for device in devices: results.append(generic)`
Fallback(results, devs) ==
    IF results = <<>> THEN [i \in 1..Len(devs) |-> GenericDoc(devs[i])] ELSE results

\* variant: without the inner try/except a failing device ends the loop in
\* the outer handler
LoopResults_propagate(loop, devs) ==
    IF loop.failed # {} THEN <<SearchErrorDoc(OwletConnectionError)>>
    ELSE Fallback(loop.results, devs)

\* the results list after the device loop and the fallback loop: a device
\* whose iteration raised is logged and the loop continues
LoopResults(loop, devs) == Fallback(loop.results, devs)

Q_hello == <<"h", "e", "l", "l", "o">>

Q_vitals == <<"v", "i", "t", "a", "l", "s">>

Q_snow == <<"s", "n", "o", "w">>

Q_Alerts == <<"A", "c", "t", "i", "v", "e", " ", "A", "L", "E", "R", "T", "S">>

Q_battery == <<"b", "a", "t", "t", "e", "r", "y">>

Q_health == <<"h", "e", "a", "l", "t", "h">>

Q_trends == <<"t", "r", "e", "n", "d", "s">>

Q_camera == <<"c", "a", "m", "e", "r", "a">>

Q_alarm_data == <<"a", "l", "a", "r", "m", " ", "d", "a", "t", "a">>

Q_blank == Repeat(" ", 3)

\* exactly MaxQueryLength characters, no keyword
Q_longest == Repeat("x", MaxQueryLength)

\* one character too long: without keyword, whitespace only, with a keyword
Q_too_long == Repeat("x", MaxQueryLength + 1)

Q_too_long_blank == Repeat(" ", MaxQueryLength + 1)

Q_too_long_vitals == Q_vitals \o Repeat("x", MaxQueryLength + 1 - Len(Q_vitals))

Queries ==
    { <<>>, Q_blank, Q_hello, Q_vitals, Q_snow, Q_Alerts, Q_battery, Q_health,
      Q_trends, Q_camera, Q_alarm_data, Q_longest, Q_too_long, Q_too_long_blank,
      Q_too_long_vitals }

\* `not query or not query.strip()`
BlankTest(query) == Len(query) = 0 \/ Len(Strip(query)) = 0

\* the tests search makes on its query, tabulated once for the queries of
\* the exploration: blank test, validate_query, and the categories whose
\* keyword test `any(term in query.lower() for term in [...])` succeeds
QueryFacts ==
    [q \in Queries |->
        [blank |-> BlankTest(q),
         valid |-> validate_query(q),
         matched |-> MatchedCategories(Lower(q))]]

IsBlank(query) == QueryFacts[query].blank

IsValid(query) == QueryFacts[query].valid

Matched(query) == QueryFacts[query].matched

\* variant: a blank query answered with the validation error Document
BlankQueryResults_error == <<InvalidQueryDoc>>

\* what search returns for an empty or whitespace-only query
BlankQueryResults == <<>>

\* variant: nothing returned when there is no device
NoDevicesResults_empty == <<>>

\* what search returns when get_devices() yields no device
NoDevicesResults == <<NoDevicesDoc>>

\* the body of search(query): the returned results, the globals after the
\* call, the DeviceRegistry requests made, the serials skipped, and whether
\* get_devices() returned
search(query, devs, client, auth_ok, listing, snaps) ==
    IF IsBlank(query)
    THEN [results |-> BlankQueryResults, devices |-> devs, api_client |-> client,
          trace |-> <<>>, failed |-> {}, got_roster |-> FALSE]
    ELSE IF ~IsValid(query)
    THEN [results |-> <<InvalidQueryDoc>>, devices |-> devs, api_client |-> client,
          trace |-> <<>>, failed |-> {}, got_roster |-> FALSE]
    ELSE LET matched == Matched(query)
             g == get_devices(devs, client, auth_ok, listing)
         IN  IF g.raised
             THEN [results |-> <<SearchErrorDoc(g.err)>>, devices |-> g.devices,
                   api_client |-> g.api_client, trace |-> g.trace, failed |-> {},
                   got_roster |-> FALSE]
             ELSE IF g.devices = <<>>
             THEN [results |-> NoDevicesResults, devices |-> g.devices,
                   api_client |-> g.api_client, trace |-> g.trace, failed |-> {},
                   got_roster |-> TRUE]
             ELSE LET loop == DeviceLoop(g.devices, snaps, matched, 1, <<>>, {})
                  IN  [results |-> sanitize_results(LoopResults(loop, g.devices)),
                       devices |-> g.devices, api_client |-> g.api_client,
                       trace |-> g.trace \o
                           [i \in 1..Len(g.devices) |->
                               SnapshotRequest(g.devices[i].serial)],
                       failed |-> loop.failed, got_roster |-> TRUE]

----------------------------------------------------------------------------
(* The fetch tool                                                          *)

\* next((d for d in devices if d.serial == device_serial), None):
\* the index of the first match, 0 for None
TargetDevice(devs, device_serial) ==
    LET hits == {i \in 1..Len(devs) : devs[i].serial = device_serial}
    IN  IF hits = {} THEN 0 ELSE CHOOSE i \in hits : \A j \in hits : i <= j

\* the if/elif chain on data_type
KnownDataType(data_type) ==
    data_type \in {S_vitals, S_alerts, S_status, S_wellness, S_history, S_live, S_device}

GenerateRaises(data_type, properties) ==
    \/ data_type = S_wellness /\ DetailRaises("wellness", properties)
    \/ data_type = S_history /\ DetailRaises("history", properties)

GenerateContent(data_type, device, properties) ==
    CASE data_type = S_vitals   -> _generate_vitals_content(device, properties)
      [] data_type = S_alerts   -> _generate_alerts_content(device, properties)
      [] data_type = S_status   -> _generate_status_content(device, properties)
      [] data_type = S_wellness -> _generate_wellness_content(device, properties)
      [] data_type = S_history  -> _generate_history_content(device, properties)
      [] data_type = S_live     -> _generate_live_content(device, properties)
      [] data_type = S_device   -> _generate_device_content(device, properties)

\* variant: the caught exception is re-raised as it is
Wrapped_reraise(e) == e

\* `except Exception as e: raise ValueError(f"Unable to fetch document {id}: {str(e)}")`
Wrapped(e) == Error("ValueError", e.msg, e.type)

\* variant: the snapshot request is made a second time
SnapshotTrace_retry(trace, serial) ==
    Append(Append(trace, SnapshotRequest(serial)), SnapshotRequest(serial))

\* the DeviceRegistry requests made once `await target_device.update_properties()`
\* has been evaluated
SnapshotTrace(trace, serial) == Append(trace, SnapshotRequest(serial))

\* the body of fetch(id): raised/err or the returned document, the globals
\* after the call, the DeviceRegistry requests made and the serials whose
\* snapshot request raised
fetch(id, devs, client, auth_ok, listing, snapshot) ==
    IF Len(id) = 0
    THEN [raised |-> TRUE, err |-> Error("ValueError", "Document ID is required", "none"),
          results |-> <<>>, devices |-> devs, api_client |-> client, trace |-> <<>>,
          got_roster |-> FALSE, failed |-> {}]
    ELSE LET parts == Split1(id) IN
         IF Len(parts) # 2
         THEN [raised |-> TRUE,
               err |-> Wrapped(Error("ValueError", "Invalid document ID format", "none")),
               results |-> <<>>, devices |-> devs, api_client |-> client, trace |-> <<>>,
          got_roster |-> FALSE, failed |-> {}]
         ELSE LET data_type == parts[1]
                  device_serial == parts[2]
                  g == get_devices(devs, client, auth_ok, listing)
                  t == TargetDevice(g.devices, device_serial)
                  snap_trace == SnapshotTrace(g.trace, device_serial)
              IN  IF g.raised
                  THEN [raised |-> TRUE, err |-> Wrapped(g.err), results |-> <<>>,
                        devices |-> g.devices, api_client |-> g.api_client,
                        trace |-> g.trace,
                        got_roster |-> FALSE, failed |-> {}]
                  ELSE IF t = 0
                  THEN [raised |-> TRUE,
                        err |-> Wrapped(Error("ValueError", "Device not found", "none")),
                        results |-> <<>>, devices |-> g.devices,
                        api_client |-> g.api_client, trace |-> g.trace,
                        got_roster |-> TRUE, failed |-> {}]
                  ELSE IF ~snapshot.ok
                  THEN [raised |-> TRUE, err |-> Wrapped(OwletConnectionError),
                        results |-> <<>>, devices |-> g.devices,
                        api_client |-> g.api_client, trace |-> snap_trace,
                        got_roster |-> TRUE, failed |-> {device_serial}]
                  ELSE IF ~KnownDataType(data_type)
                  THEN [raised |-> TRUE,
                        err |-> Wrapped(Error("ValueError", "Unknown data type", "none")),
                        results |-> <<>>, devices |-> g.devices,
                        api_client |-> g.api_client, trace |-> snap_trace,
                        got_roster |-> TRUE, failed |-> {}]
                  ELSE IF GenerateRaises(data_type, snapshot.properties)
                  THEN [raised |-> TRUE,
                        err |-> Wrapped(Error("ValueError", "year is out of range", "none")),
                        results |-> <<>>, devices |-> g.devices,
                        api_client |-> g.api_client, trace |-> snap_trace,
                        got_roster |-> TRUE, failed |-> {}]
                  ELSE [raised |-> FALSE, err |-> NoError,
                        results |-> <<sanitize_document(
                            GenerateContent(data_type, g.devices[t], snapshot.properties))>>,
                        devices |-> g.devices, api_client |-> g.api_client,
                        trace |-> snap_trace,
                        got_roster |-> TRUE, failed |-> {}]

----------------------------------------------------------------------------
(* Tool invocations                                                        *)

\* `raise Exception(f"Rate limit exceeded: ...")` of the wrapper
RateLimitError == Error("Exception", "Rate limit exceeded", "none")

\* func(*args, **kwargs) with a keyword the tool does not take
UnexpectedKeyword == Error("TypeError", "unexpected keyword argument", "none")

\* the observation of a tool invocation
Observe(tool, kwargs, admitted, raised, err, results, trace, failed, got_roster) ==
    [tool |-> tool, kwargs |-> kwargs, admitted |-> admitted, raised |-> raised,
     err |-> err, results |-> results, trace |-> trace, failed |-> failed,
     got_roster |-> got_roster]

NoCall ==
    Observe("none", [k \in {} |-> <<>>], FALSE, FALSE, NoError, <<>>, <<>>, {}, FALSE)

\* variant: the limit is tested after the tool body has asked for the roster
Rejected_handled(tool, kwargs) ==
    Observe(tool, kwargs, FALSE, TRUE, RateLimitError, <<>>, <<ListRequest>>, {}, FALSE)

\* the wrapper raises before the tool body runs
Rejected(tool, kwargs) ==
    Observe(tool, kwargs, FALSE, TRUE, RateLimitError, <<>>, <<>>, {}, FALSE)

\* the wrapped call `await func(*args, **kwargs)` cannot bind its arguments
Unbound(tool, kwargs) ==
    Observe(tool, kwargs, TRUE, TRUE, UnexpectedKeyword, <<>>, <<>>, {}, FALSE)

\* one invocation of the search tool with keyword arguments kwargs
Search(kwargs, auth_ok, listing, snaps) ==
    LET rl == rate_limit(request_counts, kwargs, now)
    IN  /\ request_counts' = rl.request_counts
        /\ IF ~rl.admitted
           THEN /\ last' = Rejected("search", kwargs)
                /\ UNCHANGED <<api_client, devices>>
           ELSE IF DOMAIN kwargs # {"query"}
           THEN /\ last' = Unbound("search", kwargs)
                /\ UNCHANGED <<api_client, devices>>
           ELSE LET r == search(kwargs["query"], devices, api_client,
                                auth_ok, listing, snaps)
                IN  /\ last' = Observe("search", kwargs, TRUE, FALSE, NoError,
                                       r.results, r.trace, r.failed, r.got_roster)
                    /\ api_client' = r.api_client
                    /\ devices' = r.devices
        /\ UNCHANGED <<now, environ, process, closed, data, sanitized>>
        /\ UNCHANGED co_vars

\* one invocation of the fetch tool with keyword arguments kwargs
Fetch(kwargs, auth_ok, listing, snapshot) ==
    LET rl == rate_limit(request_counts, kwargs, now)
    IN  /\ request_counts' = rl.request_counts
        /\ IF ~rl.admitted
           THEN /\ last' = Rejected("fetch", kwargs)
                /\ UNCHANGED <<api_client, devices>>
           ELSE IF DOMAIN kwargs # {"id"}
           THEN /\ last' = Unbound("fetch", kwargs)
                /\ UNCHANGED <<api_client, devices>>
           ELSE LET r == fetch(kwargs["id"], devices, api_client,
                               auth_ok, listing, snapshot)
                IN  /\ last' = Observe("fetch", kwargs, TRUE, r.raised, r.err,
                                       r.results, r.trace, r.failed, r.got_roster)
                    /\ api_client' = r.api_client
                    /\ devices' = r.devices
        /\ UNCHANGED <<now, environ, process, closed, data, sanitized>>
        /\ UNCHANGED co_vars

\* time passes
Tick ==
    /\ now + TickStep <= MaxTime
    /\ now' = now + TickStep
    /\ UNCHANGED <<environ, request_counts, api_client, devices, last, process,
                   closed, data, sanitized>>
    /\ UNCHANGED co_vars

\* a whole window of time passes
WindowPasses ==
    /\ now + TIME_WINDOW <= MaxTime
    /\ now' = now + TIME_WINDOW
    /\ UNCHANGED <<environ, request_counts, api_client, devices, last, process,
                   closed, data, sanitized>>
    /\ UNCHANGED co_vars

\* variant: cleanup() runs in the exception handler and in the finally clause
cleanup_twice(client, n) == IF client # "None" THEN n + 2 ELSE n

\* cleanup(): `if api_client: await api_client.close()`; n counts the
\* close() calls
cleanup(client, n) == IF client # "None" THEN n + 1 ELSE n

\* the ways `await server.run(...)` ends: it returns, KeyboardInterrupt is
\* raised, or another exception is raised
Exits == {"returned", "KeyboardInterrupt", "Exception"}

\* the transport run ends and the finally clause runs cleanup()
Shutdown(how) ==
    /\ process = "running"
    /\ process' = how
    /\ closed' = cleanup(api_client, closed)
    /\ UNCHANGED <<now, environ, request_counts, api_client, devices, last,
                   data, sanitized>>
    /\ UNCHANGED co_vars

\* one call sanitize_output(data)
Sanitize ==
    /\ sanitized' = sanitize_output(data)
    /\ UNCHANGED <<now, environ, request_counts, api_client, devices, last,
                   process, closed, data>>
    /\ UNCHANGED co_vars

\* sanitize_output called on what the previous call returned
Resanitize ==
    /\ sanitized[1] # "none"
    /\ data' = sanitized
    /\ sanitized' = sanitize_output(sanitized)
    /\ UNCHANGED <<now, environ, request_counts, api_client, devices, last,
                   process, closed>>
    /\ UNCHANGED co_vars

\* what a formatter call did: raised, or the Documents it produced
Outcome(formatter, cat, raised, docs) ==
    [formatter |-> formatter, cat |-> cat, raised |-> raised, docs |-> docs]

NoOutcome == Outcome("none", "none", FALSE, <<>>)

\* the block of one category in the device loop of search, on snapshot data
Summarise(device, cat) ==
    /\ sanitized.formatter = "none"
    /\ sanitized' =
           LET r == CategoryBlocks(device, data, {cat}, 1, <<>>)
           IN  Outcome("summary", cat, r.raised, r.docs)
    /\ UNCHANGED <<now, environ, request_counts, api_client, devices, last,
                   process, closed, data>>
    /\ UNCHANGED co_vars

\* the detailed formatter fetch calls for a data type, on snapshot data, and
\* sanitize_output on what it returns
Detail(device, cat) ==
    /\ sanitized.formatter = "none"
    /\ sanitized' =
           IF GenerateRaises(CategoryPrefix(cat), data)
           THEN Outcome("detail", cat, TRUE, <<>>)
           ELSE Outcome("detail", cat, FALSE,
                        <<sanitize_document(
                            GenerateContent(CategoryPrefix(cat), device, data))>>)
    /\ UNCHANGED <<now, environ, request_counts, api_client, devices, last,
                   process, closed, data>>
    /\ UNCHANGED co_vars

\* one call validate_query(data)
Validate ==
    /\ sanitized' = Atom(validate_query(data))
    /\ UNCHANGED <<now, environ, request_counts, api_client, devices, last,
                   process, closed, data>>
    /\ UNCHANGED co_vars

----------------------------------------------------------------------------
(* control_base_station of the local server (src/mcp_server.py)            *)

S_on == <<"o", "n">>

S_off == <<"o", "f", "f">>

\* action.lower() not in ["on", "off"]
InvalidAction(action) == Lower(action) \notin {S_on, S_off}

\* variant: the action is compared as it was given
TurnOn_as_given(action) == action = S_on

\* turn_on = action.lower() == "on"
TurnOn(action) == Lower(action) = S_on

\* what a call did: the string returned, the control commands sent to
\* devices, the other DeviceRegistry requests made, and the globals after
\* the call
Controlled(text, commands, trace, devs, client) ==
    [text |-> text, commands |-> commands, trace |-> trace, devices |-> devs,
     api_client |-> client]

\* the device chosen: next((d for d in devices if d.serial == device_serial), None)
\* for a given serial, devices[0] otherwise; 0 for None
SelectDevice(devs, device_serial) ==
    IF Len(device_serial) > 0 THEN TargetDevice(devs, device_serial) ELSE 1

\* control_base_station(action, device_serial): outcome is what
\* target_device.control_base_station(turn_on) does, it returns "true" or
\* "false" or it "raises"
control_base_station(action, device_serial, devs, client, auth_ok, listing, outcome) ==
    IF InvalidAction(action)
    THEN Controlled("Invalid action. Please use 'on' or 'off'.", <<>>, <<>>, devs, client)
    ELSE LET g == get_devices(devs, client, auth_ok, listing)
         IN  IF g.raised
             THEN Controlled("Error controlling base station", <<>>, g.trace,
                             g.devices, g.api_client)
             ELSE IF g.devices = <<>>
             THEN Controlled("No devices found. Please check your Owlet account.",
                             <<>>, g.trace, g.devices, g.api_client)
             ELSE LET t == SelectDevice(g.devices, device_serial)
                  IN  IF t = 0
                      THEN Controlled("Device with serial not found.", <<>>, g.trace,
                                      g.devices, g.api_client)
                      ELSE Controlled(
                               CASE outcome = "true" ->
                                      IF TurnOn(action)
                                      THEN "Base station turned on successfully"
                                      ELSE "Base station turned off successfully"
                                 [] outcome = "false" ->
                                      "Failed to control base station. Please try again."
                                 [] outcome = "raises" ->
                                      "Error controlling base station",
                               <<[serial |-> g.devices[t].serial,
                                  turn_on |-> TurnOn(action)]>>,
                               g.trace, g.devices, g.api_client)

NotControlled == Controlled("none", <<>>, <<>>, <<>>, "None")

\* one invocation of the control_base_station tool
ControlBaseStation(action, device_serial, auth_ok, listing, outcome) ==
    LET r == control_base_station(action, device_serial, devices, api_client,
                                  auth_ok, listing, outcome)
    IN  /\ data' = [action |-> action, device_serial |-> device_serial]
        /\ sanitized' = r
        /\ api_client' = r.api_client
        /\ devices' = r.devices
        /\ UNCHANGED <<now, environ, request_counts, last, process, closed,
                       tasks, clients, admissions>>

----------------------------------------------------------------------------
(* Overlapping invocations: every DeviceRegistry call is an await at which *)
(* the invocation is suspended and another one may run                     *)

\* at most MaxTasks invocations are suspended at a time
MaxTasks == 2

\* at most MaxClients OwletAPI objects are constructed
MaxClients == 2

\* the i-th object made by OwletAPI(region=region, user=user, password=password)
ClientObject(i) == "OwletAPI#" \o ToString(i)

\* has authenticate() completed successfully on this object?
Authenticated(client) ==
    \E i \in DOMAIN clients : ClientObject(i) = client /\ clients[i] = "ok"

\* an invocation suspended in the DeviceRegistry call pc made on client api
Task(pc, api) == [pc |-> pc, api |-> api]

\* Sock(api, device_data): a device keeps the client it was listed with
Sock(api, device) == [api |-> api] @@ device

\* the wrapper has entered the tool body, which has not returned yet
Entered(tool, kwargs) ==
    Observe(tool, kwargs, TRUE, FALSE, NoError, <<>>, <<>>, {}, FALSE)

\* the times a caller was admitted at, with one more
Admit(log, client_id, current_time) ==
    [k \in DOMAIN log \cup {client_id} |->
        IF k = client_id THEN Append(GetCounts(log, client_id), current_time)
        ELSE log[k]]

\* an invocation from the wrapper to the first await that suspends it:
\* rate_limit, then get_devices(), which goes to the snapshot of the cached
\* roster, or to api.get_devices() on the cached client, or constructs a
\* client and awaits its authenticate(); without credentials
\* get_authenticated_api raises and the invocation ends
Begin(tool, kwargs) ==
    LET rl == rate_limit(request_counts, kwargs, now)
    IN  /\ request_counts' = rl.request_counts
        /\ IF ~rl.admitted
           THEN /\ last' = Rejected(tool, kwargs)
                /\ UNCHANGED <<api_client, tasks, clients, admissions>>
           ELSE /\ BagCardinality(tasks) < MaxTasks
                /\ last' = Entered(tool, kwargs)
                /\ admissions' = Admit(admissions, ClientId(kwargs), now)
                /\ IF devices # <<>>
                   THEN /\ tasks' = tasks (+) SetToBag({Task("update_properties", devices[1].api)})
                        /\ UNCHANGED <<api_client, clients>>
                   ELSE IF api_client # "None"
                   THEN /\ tasks' = tasks (+) SetToBag({Task("get_devices", api_client)})
                        /\ UNCHANGED <<api_client, clients>>
                   ELSE IF ~environ
                   THEN UNCHANGED <<api_client, tasks, clients>>
                   ELSE /\ Len(clients) < MaxClients
                        /\ clients' = Append(clients, "pending")
                        /\ api_client' = ClientObject(Len(clients) + 1)
                        /\ tasks' = tasks (+)
                               SetToBag({Task("authenticate", ClientObject(Len(clients) + 1))})
        /\ UNCHANGED <<now, environ, devices, process, closed, data, sanitized>>

\* `await api_client.authenticate()` returns or raises in get_authenticated_api:
\* `return api_client` and then `await api.get_devices()`, or
\* `api_client = None` and the invocation ends with the error
AuthenticateReturns(task, ok) ==
    /\ task.pc = "authenticate"
    /\ BagIn(task, tasks)
    /\ LET i == CHOOSE k \in DOMAIN clients : ClientObject(k) = task.api
       IN  IF ok
           THEN /\ clients' = [clients EXCEPT ![i] = "ok"]
                /\ tasks' = (tasks (-) SetToBag({task}))
                                (+) SetToBag({Task("get_devices", api_client)})
                /\ UNCHANGED api_client
           ELSE /\ clients' = [clients EXCEPT ![i] = "failed"]
                /\ tasks' = tasks (-) SetToBag({task})
                /\ api_client' = "None"
    /\ UNCHANGED <<now, environ, request_counts, devices, last, process, closed,
                   data, sanitized, admissions>>

\* `await api.get_devices()` returns or raises in get_devices(): the roster
\* is rebuilt from the response and the invocation awaits the snapshot of
\* its device, or the invocation ends with the error
ListingReturns(task, ok) ==
    /\ task.pc = "get_devices"
    /\ BagIn(task, tasks)
    /\ IF ok
       THEN /\ devices' = <<Sock(task.api, Sock1)>>
            /\ tasks' = (tasks (-) SetToBag({task}))
                            (+) SetToBag({Task("update_properties", task.api)})
       ELSE /\ tasks' = tasks (-) SetToBag({task})
            /\ UNCHANGED devices
    /\ UNCHANGED <<now, environ, request_counts, api_client, last, process, closed,
                   data, sanitized, clients, admissions>>

\* `await device.update_properties()` returns or raises and the invocation
\* runs to its end
SnapshotReturns(task) ==
    /\ task.pc = "update_properties"
    /\ BagIn(task, tasks)
    /\ tasks' = tasks (-) SetToBag({task})
    /\ UNCHANGED <<now, environ, request_counts, api_client, devices, last,
                   process, closed, data, sanitized, clients, admissions>>

\* a whole window of time passes while invocations are suspended
WindowPassesSuspended ==
    /\ now + TIME_WINDOW <= MaxTime
    /\ now' = now + TIME_WINDOW
    /\ admissions' =
           [k \in DOMAIN admissions |->
               SelectSeq(admissions[k], LAMBDA t : t > now' - TIME_WINDOW)]
    /\ UNCHANGED <<environ, request_counts, api_client, devices, last, process,
                   closed, data, sanitized, tasks, clients>>

----------------------------------------------------------------------------
(* Inputs                                                                  *)

Serials == {Sock1.serial, Sock2.serial}

S_bogus == <<"b", "o", "g", "u", "s">>

S_foo == <<"f", "o", "o">>

\* well-formed ids of every data type for every serial, known or not, and
\* malformed ids: empty, no separator, unknown data type, empty data type
Ids ==
    {MakeId(CategoryPrefix(cat), serial) :
        cat \in Categories, serial \in Serials \cup {UnknownSerial}}
    \cup {MakeId(S_foo, serial) : serial \in Serials \cup {UnknownSerial}}
    \cup {<<>>, S_bogus, MakeId(<<>>, Sock1.serial)}

\* explicit client_id keywords of direct invocations
ClientIds == {"unknown", "alice"}

FailedSnapshot == [ok |-> FALSE, properties |-> NoProperties]

\* the outcomes of authenticate() that the call can observe
AuthChoices ==
    IF api_client = "None" /\ devices = <<>> /\ environ THEN BOOLEAN ELSE {TRUE}

\* the outcomes of api.get_devices() that the call can observe
ListingChoices == IF devices = <<>> THEN Listings ELSE {[ok |-> TRUE, response |-> devices]}

\* the roster the call works on
RosterOf(listing) == IF devices # <<>> THEN devices ELSE listing.response

\* the outcomes of update_properties() for the devices of each roster,
\* tabulated once
SnapChoicesOfRoster ==
    [roster \in Rosters |->
        {sn \in [Serials -> Snapshots] :
            \A x \in Serials :
                (\A i \in 1..Len(roster) : roster[i].serial # x) =>
                    sn[x] = FailedSnapshot}]

SnapChoices(roster) == SnapChoicesOfRoster[roster]

\* the tests fetch makes on its id before get_devices(), tabulated once
\* for the ids of the exploration
IdFacts ==
    [id \in Ids |->
        [reaches |-> Len(id) > 0 /\ Len(Split1(id)) = 2,
         serial |-> IF Len(Split1(id)) = 2 THEN Split1(id)[2] ELSE <<>>]]

\* does search(q) get as far as get_devices()?
SearchReaches(q) == ~IsBlank(q) /\ IsValid(q)

\* does fetch(id) get as far as get_devices()?
FetchReaches(id) == IdFacts[id].reaches

\* the outcomes a call can observe, given how far it gets: a call that
\* returns before get_devices() observes none, a call whose authentication
\* fails observes no listing, a call without roster observes no snapshot,
\* and fetch observes the snapshot of its target device only
AuthChoicesOf(reaches) == IF reaches THEN AuthChoices ELSE {TRUE}

ListingChoicesOf(reaches, auth_ok) ==
    IF reaches /\ (api_client # "None" \/ (environ /\ auth_ok)) THEN ListingChoices
    ELSE {[ok |-> FALSE, response |-> <<>>]}

SnapChoicesOf(reaches, listing) ==
    IF reaches /\ listing.ok THEN SnapChoices(RosterOf(listing))
    ELSE {[x \in Serials |-> FailedSnapshot]}

FetchSnapChoices(id, reaches, listing) ==
    IF /\ reaches
       /\ listing.ok
       /\ TargetDevice(RosterOf(listing), IdFacts[id].serial) # 0
    THEN Snapshots
    ELSE {FailedSnapshot}

BucketHasRoom(kwargs) ==
    Len(GetCounts(request_counts, ClientId(kwargs))) < MaxCalls

\* longest list among the values of Level1 and Level2
MaxLen == 2

\* keys of the dicts of Level1 and Level2: a sensitive word in mixed case,
\* a key that only contains a sensitive word, and a harmless key
SanKeys == {<<"T", "o", "k", "e", "n">>, <<"a", "p", "i", "_", "k", "e", "y">>, <<"h", "r">>}

\* the dicts with keys among SanKeys and values in V
DictsOver(V) == {Dict(f) : f \in UNION {[S -> V] : S \in SUBSET SanKeys}}

\* the lists of at most MaxLen values of V
ListsOver(V) == {List(s) : s \in UNION {[1..n -> V] : n \in 0..MaxLen}}

Level0 == {Atom("x")}

Level1 == Level0 \cup DictsOver(Level0) \cup ListsOver(Level0)

Level2 == Level1 \cup DictsOver(Level1) \cup ListsOver(Level1)

\* a dict of one entry
Entry(k, v) == [x \in {k} |-> v]

\* deeper values: sensitive keys in every spelling below several dicts and
\* lists, a sensitive word as a value, and the dict of the repository's test
DeepValues ==
    { Dict(Entry(<<"n", "e", "s", "t", "e", "d">>,
           List(<<Dict(Entry(<<"i", "t", "e", "m", "s">>,
                  List(<<Dict(Entry(<<"S", "e", "c", "r", "e", "t">>, Atom("x")) @@ Entry(<<"h", "r">>, Atom("120"))),
                         Atom("token")>>)))>>))),
      List(<<List(<<List(<<Dict(Entry(<<"K", "E", "Y">>, Dict(Entry(<<"h", "r">>, Atom("x"))))
                                @@ Entry(<<"k", "e", "y", "s">>, List(<<Atom("key")>>)))>>)>>)>>),
      Dict(Entry(<<"h", "r">>, Atom("120")) @@ Entry(<<"p", "a", "s", "s", "w", "o", "r", "d">>, Atom("secret123"))
           @@ Entry(<<"T", "o", "k", "e", "n">>, Atom("abc123"))
           @@ Entry(<<"n", "e", "s", "t", "e", "d">>, Dict(Entry(<<"v", "a", "l", "u", "e">>, Atom("98"))
                                     @@ Entry(<<"K", "E", "Y">>, Atom("sensitive"))))) }

\* the arguments of the explored sanitize_output calls
Values == Level2 \cup DeepValues

----------------------------------------------------------------------------
(* Specifications                                                          *)

Init ==
    /\ now = 0
    /\ environ \in BOOLEAN
    /\ request_counts = [k \in {} |-> <<>>]
    /\ api_client = "None"
    /\ devices = <<>>
    /\ last = NoCall
    /\ process = "running"
    /\ closed = 0
    /\ data = NoValue
    /\ sanitized = NoValue
    /\ tasks = EmptyBag
    /\ clients = <<>>
    /\ admissions = [k \in {} |-> <<>>]

\* the tools as the MCP runtime invokes them
ToolSearch ==
    /\ process = "running"
    /\ \E q \in Queries :
          /\ BucketHasRoom([query |-> q])
          /\ \E auth_ok \in AuthChoicesOf(SearchReaches(q)) :
                \E listing \in ListingChoicesOf(SearchReaches(q), auth_ok) :
                    \E snaps \in SnapChoicesOf(SearchReaches(q), listing) :
                        Search([query |-> q], auth_ok, listing, snaps)

ToolFetch ==
    /\ process = "running"
    /\ \E id \in Ids :
          /\ BucketHasRoom([id |-> id])
          /\ \E auth_ok \in AuthChoicesOf(FetchReaches(id)) :
                \E listing \in ListingChoicesOf(FetchReaches(id), auth_ok) :
                    \E snapshot \in FetchSnapChoices(id, FetchReaches(id), listing) :
                        Fetch([id |-> id], auth_ok, listing, snapshot)

\* direct invocations of the wrappers with a client_id keyword
DirectSearch ==
    \E c \in ClientIds :
        /\ process = "running"
        /\ BucketHasRoom([query |-> Q_vitals, client_id |-> c])
        /\ Search([query |-> Q_vitals, client_id |-> c], TRUE,
                  [ok |-> TRUE, response |-> <<Sock1>>],
                  [x \in Serials |-> FailedSnapshot])

DirectFetch ==
    \E c \in ClientIds :
        /\ process = "running"
        /\ BucketHasRoom([id |-> S_bogus, client_id |-> c])
        /\ Fetch([id |-> S_bogus, client_id |-> c], TRUE,
                 [ok |-> TRUE, response |-> <<Sock1>>], FailedSnapshot)

\* the process stops
Stop == \E how \in Exits : Shutdown(how)

Next == ToolSearch \/ ToolFetch \/ DirectSearch \/ DirectFetch \/ Stop

Spec == Init /\ [][Next]_vars

\* SpecRL: one caller without identity calls the two tools any number of
\* times while time passes; the DeviceRegistry always answers
CalmSnapshot == [ok |-> TRUE, properties |-> CalmProperties]

RLSearch ==
    Search([query |-> Q_vitals], TRUE, [ok |-> TRUE, response |-> <<Sock1>>],
           [x \in Serials |-> CalmSnapshot])

RLFetch ==
    Fetch([id |-> MakeId(S_vitals, Sock1.serial)], TRUE,
          [ok |-> TRUE, response |-> <<Sock1>>], CalmSnapshot)

NextRL == Tick \/ RLSearch \/ RLFetch

SpecRL == Init /\ [][NextRL]_vars

\* SpecSan: sanitize_output is called on a value, and again on what it returned
InitSan ==
    /\ now = 0
    /\ environ = TRUE
    /\ request_counts = [k \in {} |-> <<>>]
    /\ api_client = "None"
    /\ devices = <<>>
    /\ last = NoCall
    /\ process = "running"
    /\ closed = 0
    /\ data \in Values
    /\ sanitized = NoValue
    /\ tasks = EmptyBag
    /\ clients = <<>>
    /\ admissions = [k \in {} |-> <<>>]

NextSan == Sanitize \/ Resanitize

SpecSan == InitSan /\ [][NextSan]_vars

\* SpecCallers: two callers invoke the search wrapper with their identity
\* any number of times, and a window of time may pass
CallerSearch ==
    \E c \in ClientIds :
        Search([query |-> Q_vitals, client_id |-> c], TRUE,
               [ok |-> TRUE, response |-> <<Sock1>>],
               [x \in Serials |-> FailedSnapshot])

InitCallers == Init /\ environ = TRUE

NextCallers == WindowPasses \/ CallerSearch

SpecCallers == InitCallers /\ [][NextCallers]_vars

\* SpecCo: invocations of search and fetch overlap at their awaits
BeginSearch == Begin("search", [query |-> Q_vitals])

BeginFetch == Begin("fetch", [id |-> MakeId(S_vitals, Sock1.serial)])

Resume ==
    \E task \in BagToSet(tasks) :
        \/ \E ok \in BOOLEAN : AuthenticateReturns(task, ok)
        \/ \E ok \in BOOLEAN : ListingReturns(task, ok)
        \/ SnapshotReturns(task)

NextCo == BeginSearch \/ BeginFetch \/ Resume \/ WindowPassesSuspended

SpecCo == Init /\ [][NextCo]_vars

\* SpecLocal: the control_base_station tool of the local server is invoked
\* any number of times
\* actions: on and off in several spellings, and invalid ones
ControlActions ==
    { S_on, <<"O", "N">>, <<"O", "n">>, S_off, <<"O", "F", "F">>, <<"o", "F", "f">>,
      <<>>, <<"o">>, <<" ", "o", "n">>, <<"o", "n", "o", "f", "f">>,
      <<"t", "o", "g", "g", "l", "e">> }

\* serials: none given, those of the devices, and one of no device
ControlSerials == {<<>>, Sock1.serial, Sock2.serial, UnknownSerial}

InitLocal ==
    /\ now = 0
    /\ environ \in BOOLEAN
    /\ request_counts = [k \in {} |-> <<>>]
    /\ api_client = "None"
    /\ devices = <<>>
    /\ last = NoCall
    /\ process = "running"
    /\ closed = 0
    /\ data = [action |-> <<>>, device_serial |-> <<>>]
    /\ sanitized = NotControlled
    /\ tasks = EmptyBag
    /\ clients = <<>>
    /\ admissions = [k \in {} |-> <<>>]

ToolControl ==
    \E action \in ControlActions, device_serial \in ControlSerials :
        \E auth_ok \in AuthChoices, listing \in ListingChoices :
            \E outcome \in {"true", "false", "raises"} :
                ControlBaseStation(action, device_serial, auth_ok, listing, outcome)

NextLocal == ToolControl

SpecLocal == InitLocal /\ [][NextLocal]_vars

\* SpecVal: validate_query is called on a query
\* longest of the exhaustively enumerated queries
MaxShort == 3

\* characters of the enumerated queries: whitespace of both kinds the
\* exploration uses inside and around text, and letters
QueryChars == {" ", "\t", "x", "V"}

ShortQueries == UNION {[1..n -> QueryChars] : n \in 0..MaxShort}

\* queries at the length limit: 499, 500 and 501 characters of text, of
\* whitespace, and of text behind leading whitespace
LimitQueries ==
    UNION {{Repeat("x", n), Repeat(" ", n), <<" ">> \o Repeat("x", n - 1)} :
              n \in (MaxQueryLength - 1)..(MaxQueryLength + 1)}

ValidatedQueries == ShortQueries \cup LimitQueries \cup Queries

InitVal ==
    /\ now = 0
    /\ environ = TRUE
    /\ request_counts = [k \in {} |-> <<>>]
    /\ api_client = "None"
    /\ devices = <<>>
    /\ last = NoCall
    /\ process = "running"
    /\ closed = 0
    /\ data \in ValidatedQueries
    /\ sanitized = NoValue
    /\ tasks = EmptyBag
    /\ clients = <<>>
    /\ admissions = [k \in {} |-> <<>>]

NextVal == Validate

SpecVal == InitVal /\ [][NextVal]_vars

\* SpecFmt: the formatters of search and fetch are called on a snapshot
\* heart rates and oxygen saturations around the limits of the classification
HeartRates == {59, 60, 160, 161}

OxygenLevels == {94, 95, 100}

\* snapshots that report every property the formatters read a value of
FullSnapshots ==
    [heart_rate : HeartRates, oxygen_saturation : OxygenLevels,
     skin_temperature : {365}, sleep_state : {2}, movement : {3},
     battery_percentage : {80},
     monitoring_start_time : {"in_range", "out_of_range"},
     critical_oxygen_alert : {TRUE}]

PropertyKeys ==
    {"heart_rate", "oxygen_saturation", "skin_temperature", "sleep_state",
     "movement", "battery_percentage", "monitoring_start_time",
     "critical_oxygen_alert"}

\* a snapshot from which the keys outside K are absent
Restrict(properties, K) == [k \in K |-> properties[k]]

\* every snapshot with any subset of the keys absent, the empty one included
FormattedSnapshots ==
    {Restrict(p, K) : p \in FullSnapshots, K \in SUBSET PropertyKeys}

InitFmt ==
    /\ now = 0
    /\ environ = TRUE
    /\ request_counts = [k \in {} |-> <<>>]
    /\ api_client = "None"
    /\ devices = <<>>
    /\ last = NoCall
    /\ process = "running"
    /\ closed = 0
    /\ data \in FormattedSnapshots
    /\ sanitized = NoOutcome
    /\ tasks = EmptyBag
    /\ clients = <<>>
    /\ admissions = [k \in {} |-> <<>>]

FormatSummary ==
    \E device \in {Sock1, Sock2} :
        \E i \in DOMAIN SearchCategories : Summarise(device, SearchCategories[i])

FormatDetail ==
    \E device \in {Sock1, Sock2} : \E cat \in Categories : Detail(device, cat)

NextFmt == FormatSummary \/ FormatDetail

SpecFmt == InitFmt /\ [][NextFmt]_vars

----------------------------------------------------------------------------
(* Vocabulary of the properties                                            *)

\* the body of the search tool ran in the last invocation
SearchServed ==
    last.tool = "search" /\ last.admitted /\ DOMAIN last.kwargs = {"query"}

\* the body of the fetch tool ran in the last invocation
FetchServed ==
    last.tool = "fetch" /\ last.admitted /\ DOMAIN last.kwargs = {"id"}

\* what the properties mean by a query's length, by its being blank and by
\* the categories whose trigger keywords it contains, tabulated once
QueryMeaning ==
    [q \in Queries |->
        [length |-> Len(q),
         blank |-> \A i \in 1..Len(q) : q[i] \in {" ", "\t", "\n", "\r"},
         categories |->
            {cat \in Categories \ {"device"} :
                \E term \in Terms(cat) :
                    \E i \in 1..(Len(q) - Len(term) + 1) :
                        \A j \in 1..Len(term) : LowerChar(q[i + j - 1]) = term[j]}]]

LastQuery == QueryMeaning[last.kwargs["query"]]

\* a search that was served with a query that is neither blank nor too long
ValidSearch == SearchServed /\ ~LastQuery.blank /\ LastQuery.length <= 500

\* the number of results whose id is the given one
CountId(id) == Cardinality({k \in DOMAIN last.results : last.results[k].id = id})

\* the roster positions of the devices whose processing did not fail
Succeeded == {i \in 1..Len(devices) : devices[i].serial \notin last.failed}

\* a snapshot was requested during the last invocation
SnapshotRequested ==
    \E k \in DOMAIN last.trace : last.trace[k][1] = "update_properties"

\* some DeviceRegistry request was made during the last invocation
RegistryCalled == last.trace # <<>>

\* the id of the last fetch, its first separator and the parts around it
LastId == last.kwargs["id"]

HasSeparator(id) == \E i \in 1..Len(id) : id[i] = "_"

FirstSeparator(id) ==
    CHOOSE i \in 1..Len(id) : id[i] = "_" /\ \A j \in 1..(i - 1) : id[j] # "_"

IdCategory(id) == SubSeq(id, 1, FirstSeparator(id) - 1)

IdSerial(id) == SubSeq(id, FirstSeparator(id) + 1, Len(id))

CategoryNames == {CategoryPrefix(cat) : cat \in Categories}

InRoster(serial) == \E i \in 1..Len(devices) : devices[i].serial = serial

----------------------------------------------------------------------------
(* Properties                                                              *)

\* C1 as stated: a served search whose query contains trigger keywords of
\* exactly one category returns exactly one Document of that category for
\* each device of the roster, and nothing else.
C1_Original ==
    (SearchServed /\ Cardinality(LastQuery.categories) = 1) =>
        LET cat == CHOOSE c \in LastQuery.categories : TRUE
        IN  /\ Len(last.results) = Len(devices)
            /\ \A i \in 1..Len(devices) :
                  CountId(MakeId(CategoryPrefix(cat), devices[i].serial)) = 1

\* C1 amended: a served search with a valid query (not blank, at most 500
\* characters) that contains trigger keywords of exactly one category, on a
\* non-empty roster of which at least one device is processed without
\* failure, returns exactly one Document of that category for each device
\* whose snapshot and formatting succeeded, and nothing else.
C1_SingleCategory ==
    (/\ ValidSearch
     /\ Cardinality(LastQuery.categories) = 1
     /\ last.got_roster
     /\ Succeeded # {}) =>
        LET cat == CHOOSE c \in LastQuery.categories : TRUE
        IN  /\ Len(last.results) = Cardinality(Succeeded)
            /\ \A i \in Succeeded :
                  CountId(MakeId(CategoryPrefix(cat), devices[i].serial)) = 1

\* C1 witness: a one-category search over two devices, one of which failed
C1_Witness ==
    /\ ValidSearch
    /\ Cardinality(LastQuery.categories) = 1
    /\ Len(devices) = 2
    /\ Cardinality(Succeeded) = 1
    /\ Len(last.results) = 1

\* C2: a served search with a valid query that matches no category, on a
\* non-empty roster, returns exactly one generic device_<serial> Document
\* per device and nothing else.
C2_GenericPerDevice ==
    (ValidSearch /\ LastQuery.categories = {} /\ last.got_roster /\ devices # <<>>) =>
        /\ Len(last.results) = Len(devices)
        /\ \A i \in 1..Len(devices) :
              last.results[i].id = MakeId(S_device, devices[i].serial)

\* C2 witness: no category matched, two devices, one snapshot failed
C2_Witness ==
    /\ ValidSearch
    /\ LastQuery.categories = {}
    /\ Len(devices) = 2
    /\ Cardinality(last.failed) = 1
    /\ Len(last.results) = 2

\* C3 as stated: a successful fetch returns a Document whose id is the
\* input id and whose metadata.data_type is the category parsed from the id.
C3_Original ==
    (FetchServed /\ ~last.raised) =>
        /\ last.results[1].id = LastId
        /\ last.results[1].metadata.data_type = IdCategory(LastId)

\* C4: no window ever holds more than 100 request times, and a call is
\* admitted exactly when fewer than 100 of its caller's recorded request
\* times lie within the 60 seconds before it; so the first 100 calls of a
\* window are admitted, the 101st is rejected, and a call is admitted again
\* once the recorded calls are older than 60 seconds.
C4_RateLimit ==
    /\ [](\A c \in DOMAIN request_counts : Len(request_counts[c]) <= 100)
    /\ [][now' = now =>
            LET c == IF "client_id" \in DOMAIN last'.kwargs
                     THEN last'.kwargs["client_id"] ELSE "unknown"
                recent == IF c \in DOMAIN request_counts
                          THEN Cardinality({i \in DOMAIN request_counts[c] :
                                               request_counts[c][i] > now - 60})
                          ELSE 0
            IN  last'.admitted <=> recent < 100]_vars

\* C4 witness: the caller was rejected with 100 recorded request times, and
\* all of them are by now 60 seconds old
C4_Witness ==
    /\ last.tool # "none"
    /\ ~last.admitted
    /\ "unknown" \in DOMAIN request_counts
    /\ Len(request_counts["unknown"]) = 100
    /\ \A i \in DOMAIN request_counts["unknown"] :
          request_counts["unknown"][i] <= now - 60

\* C5 as stated: a served search with an empty or whitespace-only query
\* returns exactly one error Document.
C5_Original ==
    (SearchServed /\ LastQuery.blank) =>
        /\ ~last.raised
        /\ Len(last.results) = 1
        /\ last.results[1].id \in {S_error_invalid_query, S_error}

\* C5 amended: a served search with an empty or whitespace-only query
\* returns an empty results list, does not raise and makes no
\* DeviceRegistry request.
C5_BlankQuery ==
    (SearchServed /\ LastQuery.blank) =>
        /\ ~last.raised
        /\ last.results = <<>>
        /\ ~RegistryCalled

\* C5 witness: a whitespace-only query was served
C5_Witness ==
    /\ SearchServed
    /\ LastQuery.blank
    /\ LastQuery.length > 0
    /\ LastQuery.length <= 500

\* C6 as stated: a served search with a query longer than 500 characters
\* returns exactly one error Document and makes no DeviceRegistry request.
C6_Original ==
    (SearchServed /\ LastQuery.length > 500) =>
        /\ ~last.raised
        /\ Len(last.results) = 1
        /\ last.results[1].id = S_error_invalid_query
        /\ ~RegistryCalled

\* C6 amended: a served search with a query longer than 500 characters that
\* is not whitespace-only returns exactly one error Document, does not raise
\* and makes no DeviceRegistry request.
C6_TooLongQuery ==
    (SearchServed /\ LastQuery.length > 500 /\ ~LastQuery.blank) =>
        /\ ~last.raised
        /\ Len(last.results) = 1
        /\ last.results[1].id = S_error_invalid_query
        /\ ~RegistryCalled

\* C6 witness: a too long query with a trigger keyword was served
C6_Witness ==
    /\ SearchServed
    /\ LastQuery.length > 500
    /\ LastQuery.categories # {}
    /\ Len(last.results) = 1

\* C7: a served fetch whose id is empty, has no separator or has a category
\* outside the seven data types fails with a ValueError and returns no
\* Document, whatever the serial part is.
C7_InvalidId ==
    (/\ FetchServed
     /\ \/ Len(LastId) = 0
        \/ ~HasSeparator(LastId)
        \/ IdCategory(LastId) \notin CategoryNames) =>
        /\ last.raised
        /\ last.err.type = "ValueError"
        /\ last.results = <<>>

\* C7 witness: an unknown category with the serial of a roster device
C7_Witness ==
    /\ FetchServed
    /\ HasSeparator(LastId)
    /\ IdCategory(LastId) \notin CategoryNames
    /\ last.got_roster
    /\ InRoster(IdSerial(LastId))
    /\ last.raised

\* the kind of the error fetch raises for an id without separator
MalformedIdKind ==
    fetch(S_bogus, devices, api_client, TRUE, [ok |-> TRUE, response |-> devices],
          FailedSnapshot).err.type

\* C8 as stated: a served fetch with a well-formed id whose serial matches
\* no roster device fails with an error whose kind differs from the kind
\* raised for a malformed id, and requests no snapshot.
C8_Original ==
    (/\ FetchServed
     /\ Len(LastId) > 0
     /\ HasSeparator(LastId)
     /\ IdCategory(LastId) \in CategoryNames
     /\ last.got_roster
     /\ ~InRoster(IdSerial(LastId))) =>
        /\ last.raised
        /\ last.err.type # MalformedIdKind
        /\ ~SnapshotRequested

\* C9: a served search with a valid query for which get_devices yields no
\* device returns exactly the one 'no devices' Document and requests no
\* snapshot.
C9_NoDevices ==
    (ValidSearch /\ last.got_roster /\ devices = <<>>) =>
        /\ Len(last.results) = 1
        /\ last.results[1].id = S_no_devices
        /\ ~SnapshotRequested

\* C9 witness: a keyword query answered from an empty device listing
C9_Witness ==
    /\ ValidSearch
    /\ LastQuery.categories # {}
    /\ last.got_roster
    /\ devices = <<>>
    /\ RegistryCalled

\* C10: a served search with a valid query on a roster of at least one
\* device returns a non-empty results list, whichever snapshots fail.
C10_NeverEmpty ==
    (ValidSearch /\ last.got_roster /\ devices # <<>>) => last.results # <<>>

\* C10 witness: categories matched and the processing of every device failed
C10_Witness ==
    /\ ValidSearch
    /\ LastQuery.categories # {}
    /\ Len(devices) = 2
    /\ Succeeded = {}
    /\ last.results # <<>>

\* the ids of the Documents search returns in place of a response
ErrorIds == {S_error, S_error_invalid_query, S_no_devices}

\* the number of DeviceRegistry requests of a kind made during the last invocation
CountRequests(kind) ==
    Cardinality({k \in DOMAIN last.trace : last.trace[k][1] = kind})

\* C11: in a served search with a valid query over a roster on which the
\* processing of some device failed, the call does not raise, no error
\* Document stands in for the response, and every device whose processing
\* succeeded contributes exactly one Document for each category the query
\* matches.
C11_Isolation ==
    (ValidSearch /\ last.got_roster /\ last.failed # {}) =>
        /\ ~last.raised
        /\ \A k \in DOMAIN last.results : last.results[k].id \notin ErrorIds
        /\ \A i \in Succeeded : \A cat \in LastQuery.categories :
              CountId(MakeId(CategoryPrefix(cat), devices[i].serial)) = 1

\* C11 witness: a two-category search over two devices; the first device
\* failed and the second contributed both of its Documents
C11_Witness ==
    /\ ValidSearch
    /\ Cardinality(LastQuery.categories) = 2
    /\ Len(devices) = 2
    /\ last.failed = {devices[1].serial}
    /\ \A cat \in LastQuery.categories :
          CountId(MakeId(CategoryPrefix(cat), devices[2].serial)) = 1

\* C12 as stated: the results of a served search contain no Document whose
\* id refers to the serial of a device whose processing failed in that call.
C12_Original ==
    (ValidSearch /\ last.got_roster) =>
        \A serial \in last.failed : \A k \in DOMAIN last.results :
            \A cat \in Categories :
                last.results[k].id # MakeId(CategoryPrefix(cat), serial)

\* C13: a served search does not raise and returns a results list in which
\* every Document has exactly the keys id, title, text and url; when
\* authentication or the device listing fails, the list is exactly one error
\* Document.
C13_WellFormed ==
    SearchServed =>
        /\ ~last.raised
        /\ \A k \in DOMAIN last.results :
              DOMAIN last.results[k] = {"id", "title", "text", "url"}
        /\ (ValidSearch /\ ~last.got_roster) =>
              /\ Len(last.results) = 1
              /\ last.results[1].id = S_error

\* C13 witness: authentication succeeded and the device listing failed
C13_Witness ==
    /\ ValidSearch
    /\ ~last.got_roster
    /\ CountRequests("authenticate") = 1
    /\ CountRequests("get_devices") = 1
    /\ Len(last.results) = 1

\* the exception classes an `except` clause can name to catch an error of
\* the given class: the class itself and its bases up to Exception
CatchableAs(type) ==
    IF type = "Exception" THEN {"Exception"} ELSE {type, "Exception"}

\* the classes of the failures fetch raises for reasons other than the rate
\* limit: a malformed id, an unknown device, a failed snapshot
OtherFailureKinds ==
    { MalformedIdKind,
      fetch(MakeId(S_vitals, UnknownSerial), <<Sock1>>, "OwletAPI", TRUE,
            [ok |-> TRUE, response |-> <<Sock1>>], FailedSnapshot).err.type,
      fetch(MakeId(S_vitals, Sock1.serial), <<Sock1>>, "OwletAPI", TRUE,
            [ok |-> TRUE, response |-> <<Sock1>>], FailedSnapshot).err.type }

\* C14 as stated: a call rejected by the rate limiter raises an error of a
\* kind of its own: some exception class catches it and catches none of the
\* other failures the tools raise, so it is not the generic Exception.
C14_Original ==
    (last.tool # "none" /\ ~last.admitted) =>
        /\ last.raised
        /\ \E class \in CatchableAs(last.err.type) :
              \A kind \in OtherFailureKinds : class \notin CatchableAs(kind)

\* a key that equals a sensitive word when letter case is ignored
SensitiveSpelling(k) ==
    \E w \in sensitive_field_chars :
        /\ Len(k) = Len(w)
        /\ \A i \in 1..Len(w) : LowerChar(k[i]) = w[i]

\* some dict at some depth of the value has a sensitive key
RECURSIVE HasSensitiveKey(_)
HasSensitiveKey(v) ==
    IF v[1] = "dict"
    THEN \E k \in DOMAIN v[2] : SensitiveSpelling(k) \/ HasSensitiveKey(v[2][k])
    ELSE IF v[1] = "list"
    THEN \E i \in 1..Len(v[2]) : HasSensitiveKey(v[2][i])
    ELSE FALSE

\* every entry of a with a non-sensitive key that is not below a sensitive
\* key is an entry of b, at the same place
RECURSIVE Retained(_, _)
Retained(a, b) ==
    IF a[1] = "dict"
    THEN /\ b[1] = "dict"
         /\ \A k \in DOMAIN a[2] :
               ~SensitiveSpelling(k) =>
                   k \in DOMAIN b[2] /\ Retained(a[2][k], b[2][k])
    ELSE IF a[1] = "list"
    THEN /\ b[1] = "list"
         /\ Len(b[2]) >= Len(a[2])
         /\ \A i \in 1..Len(a[2]) : Retained(a[2][i], b[2][i])
    ELSE TRUE

\* b is a with nothing changed but entries with sensitive keys removed
RECURSIVE OnlyRemoved(_, _)
OnlyRemoved(a, b) ==
    IF a[1] = "dict"
    THEN /\ b[1] = "dict"
         /\ DOMAIN b[2] \subseteq DOMAIN a[2]
         /\ \A k \in DOMAIN a[2] \ DOMAIN b[2] : SensitiveSpelling(k)
         /\ \A k \in DOMAIN b[2] : OnlyRemoved(a[2][k], b[2][k])
    ELSE IF a[1] = "list"
    THEN /\ b[1] = "list"
         /\ Len(b[2]) = Len(a[2])
         /\ \A i \in 1..Len(a[2]) : OnlyRemoved(a[2][i], b[2][i])
    ELSE b = a

\* the nesting depth of a value
RECURSIVE Depth(_)
Depth(v) ==
    IF v[1] = "dict"
    THEN 1 + (LET ds == {Depth(v[2][k]) : k \in DOMAIN v[2]} \cup {0}
              IN  CHOOSE d \in ds : \A e \in ds : e <= d)
    ELSE IF v[1] = "list"
    THEN 1 + (LET ds == {Depth(v[2][i]) : i \in 1..Len(v[2])} \cup {0}
              IN  CHOOSE d \in ds : \A e \in ds : e <= d)
    ELSE 0

\* sanitize_output has returned
Returned == sanitized[1] # "none"

\* C15: what sanitize_output returns for a value built from dicts and lists
\* has, at no depth, a dict key that equals password, token, key or secret
\* when case is ignored, and it retains every entry whose key is not one of
\* these.
C15_NoSensitiveKey ==
    Returned => ~HasSensitiveKey(sanitized) /\ Retained(data, sanitized)

\* C15 witness: a sensitive key in capitals four levels down was removed and
\* its harmless neighbour was retained
C15_Witness ==
    /\ Returned
    /\ Depth(data) >= 4
    /\ HasSensitiveKey(data)
    /\ sanitized # data
    /\ Depth(sanitized) >= 4

\* C16: sanitize_output only removes dict entries with sensitive keys: lists
\* keep their length and order, other values are returned as they are, a
\* value without sensitive key is returned equal to the argument, and
\* sanitize_output of what sanitize_output returned returns the same again.
C16_OnlyRemoves ==
    /\ [](Returned =>
            /\ OnlyRemoved(data, sanitized)
            /\ (~HasSensitiveKey(data) => sanitized = data))
    /\ [][(Returned /\ data' = sanitized) => sanitized' = sanitized]_vars

\* C16 witness: a list of two different elements, the first a dict with the
\* key api_key, was returned equal to the argument
C16_Witness ==
    /\ Returned
    /\ data = sanitized
    /\ ~HasSensitiveKey(data)
    /\ data[1] = "list"
    /\ Len(data[2]) = 2
    /\ data[2][1] # data[2][2]
    /\ data[2][1][1] = "dict"
    /\ \E k \in DOMAIN data[2][1][2] : SensitiveSpelling(SubSeq(k, 5, Len(k)))

\* the last invocation was a served fetch whose id names a roster device
FetchResolved ==
    /\ FetchServed
    /\ Len(LastId) > 0
    /\ HasSeparator(LastId)
    /\ last.got_roster
    /\ InRoster(IdSerial(LastId))

\* C17: a served fetch that resolves its device makes exactly one snapshot
\* request during the call, to that device, also when earlier calls already
\* obtained snapshots; when that request fails it is not repeated and the
\* call fails without a Document.
C17_FreshSnapshot ==
    FetchResolved =>
        /\ CountRequests("update_properties") = 1
        /\ \A k \in DOMAIN last.trace :
              last.trace[k][1] = "update_properties" =>
                  last.trace[k][2] = IdSerial(LastId)
        /\ last.failed # {} => last.raised /\ last.results = <<>>

\* C17 witness: a fetch on a roster cached by an earlier call, whose one
\* snapshot request failed
C17_Witness ==
    /\ FetchResolved
    /\ CountRequests("get_devices") = 0
    /\ CountRequests("update_properties") = 1
    /\ last.failed = {IdSerial(LastId)}
    /\ last.raised

\* the number of DeviceRegistry requests of a kind in an observation
Requests(obs, kind) ==
    Cardinality({k \in DOMAIN obs.trace : obs.trace[k][1] = kind})

\* the step is a tool invocation (every invocation touches request_counts)
CallStep == request_counts' # request_counts

\* C18 as stated: once a device listing has been answered, whatever the
\* answer contained, the next tool invocation makes no listing request.
C18_Original ==
    [][(CallStep /\ last.got_roster /\ Requests(last, "get_devices") = 1) =>
           Requests(last', "get_devices") = 0]_vars

\* the invocation got as far as get_devices()
ReachedRegistry(obs) ==
    /\ obs.admitted
    /\ \/ /\ obs.tool = "search"
          /\ DOMAIN obs.kwargs = {"query"}
          /\ ~QueryMeaning[obs.kwargs["query"]].blank
          /\ QueryMeaning[obs.kwargs["query"]].length <= 500
       \/ /\ obs.tool = "fetch"
          /\ DOMAIN obs.kwargs = {"id"}
          /\ HasSeparator(obs.kwargs["id"])

\* authentication failed during the invocation
AuthFailed(obs) ==
    \/ obs.raised /\ obs.err.cause = "OwletAuthenticationError"
    \/ /\ obs.tool = "search"
       /\ Len(obs.results) = 1
       /\ obs.results[1].id = S_error
       /\ obs.results[1].text[1][2] = "OwletAuthenticationError"

\* the invocation ended in an error result
ErrorResult(obs) ==
    \/ obs.raised /\ obs.results = <<>>
    \/ obs.tool = "search" /\ Len(obs.results) = 1 /\ obs.results[1].id = S_error

\* C19: an invocation during which authentication fails ends in an error
\* result and leaves api_client None; an invocation that reaches the
\* DeviceRegistry while api_client is None attempts authentication; and once
\* api_client is set, no invocation authenticates and api_client stays set.
C19_Authentication ==
    [][CallStep =>
          /\ AuthFailed(last') => api_client' = "None" /\ ErrorResult(last')
          /\ (api_client = "None" /\ ReachedRegistry(last')) =>
                Requests(last', "authenticate") = 1 \/ AuthFailed(last')
          /\ api_client # "None" =>
                Requests(last', "authenticate") = 0 /\ api_client' # "None"]_vars

\* C19 witness: the second invocation of a caller made an authentication
\* request that failed
C19_Witness ==
    /\ "unknown" \in DOMAIN request_counts
    /\ Len(request_counts["unknown"]) = 2
    /\ Requests(last, "authenticate") = 1
    /\ AuthFailed(last)
    /\ api_client = "None"

NonWhitespace(c) == c \notin {" ", "\t", "\n", "\r"}

\* C23: validate_query(q) is true exactly when q contains at least one
\* non-whitespace character and is at most 500 characters long; so empty
\* and whitespace-only queries and queries of 501 or more characters are
\* rejected and a query of exactly 500 characters is accepted.
C23_ValidateQuery ==
    sanitized[1] = "atom" =>
        (sanitized[2] <=>
            /\ \E i \in 1..Len(data) : NonWhitespace(data[i])
            /\ Len(data) <= 500)

\* C23 witness: a query of exactly 500 characters that begins with
\* whitespace was accepted
C23_Witness ==
    /\ sanitized = Atom(TRUE)
    /\ Len(data) = 500
    /\ data[1] = " "

\* the classification C24 states for a heart rate and an oxygen saturation
StatedHeartRate(hr) == IF hr >= 60 /\ hr <= 160 THEN "normal" ELSE "attention_needed"

StatedOxygen(ox) == IF ox >= 95 THEN "normal" ELSE "attention_needed"

\* the detailed formatter of a category returned a Document
Detailed(cat) ==
    sanitized.formatter = "detail" /\ sanitized.cat = cat /\ ~sanitized.raised

\* the classifications the detailed vitals Document carries for a vital
\* sign, and those the detailed wellness Document carries
VitalsStatus(key) == sanitized.docs[1].text.vitals[key][3]

WellnessVitalStatus(key) == sanitized.docs[1].text.current_vitals[key][2]

\* C24: in the detailed vitals and wellness Documents a reported heart rate
\* is classified 'normal' exactly when 60 <= heart_rate <= 160 and a
\* reported oxygen saturation exactly when it is >= 95, 'attention_needed'
\* otherwise; both formatters classify every reported value, so they agree
\* on the same snapshot.
C24_Classification ==
    /\ Detailed("vitals") =>
          /\ "heart_rate" \in DOMAIN data =>
                /\ "heart_rate" \in DOMAIN sanitized.docs[1].text.vitals
                /\ VitalsStatus("heart_rate") = StatedHeartRate(data["heart_rate"])
          /\ "oxygen_saturation" \in DOMAIN data =>
                /\ "oxygen_saturation" \in DOMAIN sanitized.docs[1].text.vitals
                /\ VitalsStatus("oxygen_saturation") =
                       StatedOxygen(data["oxygen_saturation"])
    /\ Detailed("wellness") =>
          /\ "heart_rate" \in DOMAIN data =>
                /\ "heart_rate" \in DOMAIN sanitized.docs[1].text.current_vitals
                /\ WellnessVitalStatus("heart_rate") = StatedHeartRate(data["heart_rate"])
          /\ "oxygen_saturation" \in DOMAIN data =>
                /\ "oxygen_saturation" \in DOMAIN sanitized.docs[1].text.current_vitals
                /\ WellnessVitalStatus("oxygen_saturation") =
                       StatedOxygen(data["oxygen_saturation"])

\* C24 witness: the wellness Document of a snapshot with heart rate 160 and
\* oxygen saturation 94 classifies the first as normal and the second not
C24_Witness ==
    /\ Detailed("wellness")
    /\ DOMAIN data = {"heart_rate", "oxygen_saturation"}
    /\ data["heart_rate"] = 160
    /\ data["oxygen_saturation"] = 94
    /\ WellnessVitalStatus("heart_rate") = "normal"
    /\ WellnessVitalStatus("oxygen_saturation") = "attention_needed"

\* every value the snapshot reports is one the owlet API produces: a
\* monitoring_start_time is a timestamp datetime.fromtimestamp accepts
ValuesWellFormed(properties) ==
    "monitoring_start_time" \in DOMAIN properties =>
        properties["monitoring_start_time"] = "in_range"

\* a formatter was called on the snapshot
Formatted == sanitized.formatter # "none"

\* C25: for every category and every snapshot of well-formed values from
\* which any subset of the property keys is absent, the empty snapshot
\* included, the summary block of search and the detailed formatter of
\* fetch produce one Document of that category without raising, and the
\* snapshot mapping is left as it was.
C25_MissingKeys ==
    /\ []((Formatted /\ ValuesWellFormed(data)) =>
            /\ ~sanitized.raised
            /\ Len(sanitized.docs) = 1
            /\ {"id", "title", "text", "url"} \subseteq DOMAIN sanitized.docs[1]
            /\ \E device \in {Sock1, Sock2} :
                  sanitized.docs[1].id =
                      MakeId(CategoryPrefix(sanitized.cat), device.serial))
    /\ [][data' = data]_vars

\* C25 witness: the status block of search produced its Document from the
\* empty snapshot
C25_Witness ==
    /\ sanitized.formatter = "summary"
    /\ sanitized.cat = "status"
    /\ DOMAIN data = {}
    /\ ~sanitized.raised
    /\ Len(sanitized.docs) = 1

\* the last invocation was rejected by the rate limiter
LastRejected == last.tool # "none" /\ ~last.admitted

\* no key of a returned Document or of its metadata is a sensitive field
DocSanitized(d) ==
    /\ DOMAIN d \cap {"password", "token", "key", "secret"} = {}
    /\ "metadata" \in DOMAIN d =>
           DOMAIN d.metadata \cap {"password", "token", "key", "secret"} = {}

\* C26: the rate-limit decision comes before every handler step: a rejected
\* call raises the rate-limit error, makes no DeviceRegistry request, returns
\* no Document and leaves the cached client and roster as they were; an
\* admitted call runs the handler, which returns Documents or raises an
\* error of its own, and the Documents returned have passed the sanitizer.
C26_Pipeline ==
    /\ [](LastRejected =>
            /\ last.raised
            /\ last.err = RateLimitError
            /\ last.results = <<>>
            /\ last.trace = <<>>
            /\ ~last.got_roster)
    /\ [][(now' = now /\ ~last'.admitted) =>
             (api_client' = api_client /\ devices' = devices)]_vars
    /\ [](last.admitted =>
            /\ last.raised => (last.err # RateLimitError /\ last.results = <<>>)
            /\ ~last.raised => last.results # <<>>
            /\ \A k \in DOMAIN last.results : DocSanitized(last.results[k]))

\* C26 witness: a fetch was rejected while client and roster were cached
C26_Witness ==
    /\ LastRejected
    /\ last.tool = "fetch"
    /\ last.trace = <<>>
    /\ api_client # "None"
    /\ devices # <<>>
    /\ Len(request_counts["unknown"]) = 100

\* the messages of the errors fetch raises for an id it cannot resolve
ResolutionErrors ==
    {"Document ID is required", "Invalid document ID format", "Unknown data type",
     "Device not found"}

\* the Documents of the last search that are not error Documents
ProducedDocs == {k \in DOMAIN last.results : last.results[k].id \notin ErrorIds}

\* what fetch does with the id of a Document that search produced: it fails
\* with no resolution error, and a Document it returns has that id, the url
\* of the same category and the serial of the device that produced it
Resolves(doc, r) ==
    /\ r.raised => r.err.msg \notin ResolutionErrors
    /\ ~r.raised =>
          /\ r.results[1].id = doc.id
          /\ r.results[1].url = doc.url
          /\ r.results[1].metadata.device_serial = doc.url[2]
          /\ \E i \in 1..Len(devices) : devices[i].serial = doc.url[2]

\* C27: with an unchanged roster, the id of every non-error Document of a
\* search, serials that contain '_' included, is resolved by fetch to the
\* category and the device that produced it: fetch of such an id never
\* fails with a format, unknown-category or not-found error, whatever the
\* snapshot, both when the fetch is the next call and when it is any later one.
C27_RoundTrip ==
    /\ []((SearchServed /\ last.got_roster) =>
            \A k \in ProducedDocs : \A snapshot \in Snapshots :
                Resolves(last.results[k],
                         fetch(last.results[k].id, devices, api_client, TRUE,
                               [ok |-> TRUE, response |-> devices], snapshot)))
    /\ [][(/\ SearchServed
           /\ last.got_roster
           /\ request_counts' # request_counts
           /\ last'.tool = "fetch"
           /\ DOMAIN last'.kwargs = {"id"}
           /\ devices' = devices
           /\ \E k \in ProducedDocs : last.results[k].id = last'.kwargs["id"]) =>
              \A k \in ProducedDocs :
                  last.results[k].id = last'.kwargs["id"] =>
                      /\ last'.raised => last'.err.msg \notin ResolutionErrors
                      /\ ~last'.raised =>
                            /\ last'.results[1].id = last.results[k].id
                            /\ last'.results[1].url = last.results[k].url
                            /\ last'.results[1].metadata.device_serial =
                                   last.results[k].url[2]]_vars

\* C27 witness: a served fetch resolved the live id of the device whose
\* serial contains '_' after an earlier call had cached the roster
C27_Witness ==
    /\ FetchServed
    /\ ~last.raised
    /\ LastId = MakeId(S_live, Sock2.serial)
    /\ last.results[1].metadata.device_serial = Sock2.serial
    /\ last.trace = <<SnapshotRequest(Sock2.serial)>>
    /\ Len(request_counts["unknown"]) = 2

\* the number of request times of a caller recorded within the last 60 seconds
Recent(rc, c, t) ==
    IF c \in DOMAIN rc
    THEN Cardinality({i \in DOMAIN rc[c] : rc[c][i] > t - 60})
    ELSE 0

\* a step in which a tool is invoked (time does not pass during a call)
Invocation == now' = now /\ vars' # vars

\* C22: every call made without a caller identity, to search or to fetch,
\* is counted in the one bucket 'unknown': each admitted call of either
\* tool adds one request time to it, and once it holds 100 request times of
\* the current window the next call to either tool is rejected.
C22_SharedBucket ==
    /\ [](DOMAIN request_counts \subseteq {"unknown"})
    /\ [][Invocation =>
            /\ last'.tool \in {"search", "fetch"}
            /\ "client_id" \notin DOMAIN last'.kwargs
            /\ IF Recent(request_counts, "unknown", now) >= 100
               THEN /\ ~last'.admitted
                    /\ last'.err = RateLimitError
                    /\ Recent(request_counts', "unknown", now) = 100
               ELSE /\ last'.admitted
                    /\ Recent(request_counts', "unknown", now) =
                           Recent(request_counts, "unknown", now) + 1]_vars

\* C22 witness: a fetch without identity was rejected on a window of 100
\* request times that were recorded at two different times
C22_Witness ==
    /\ last.tool = "fetch"
    /\ ~last.admitted
    /\ "client_id" \notin DOMAIN last.kwargs
    /\ Recent(request_counts, "unknown", now) = 100
    /\ request_counts["unknown"][1] # request_counts["unknown"][100]

\* the caller of the invocation a step makes
Caller == IF "client_id" \in DOMAIN last'.kwargs THEN last'.kwargs["client_id"] ELSE "unknown"

\* C29: a rate-limiter decision for caller c depends on and changes only
\* c's window: the call is rejected exactly when c's own window holds 100
\* request times of the last 60 seconds; a rejected call leaves exactly
\* those in it and adds none, an admitted call adds exactly one, the
\* current time; and the window of every other caller is unchanged. So a
\* caller is admitted whatever the other callers' windows hold.
C29_Frame ==
    [][Invocation =>
         /\ \A d \in DOMAIN request_counts' \ {Caller} :
               d \in DOMAIN request_counts /\ request_counts'[d] = request_counts[d]
         /\ DOMAIN request_counts \subseteq DOMAIN request_counts'
         /\ last'.admitted <=> Recent(request_counts, Caller, now) < 100
         /\ ~last'.admitted =>
               /\ Len(request_counts'[Caller]) = Recent(request_counts, Caller, now)
               /\ \A i \in DOMAIN request_counts'[Caller] :
                     request_counts'[Caller][i] \in
                         {request_counts[Caller][j] : j \in DOMAIN request_counts[Caller]}
         /\ last'.admitted =>
               /\ Len(request_counts'[Caller]) =
                      Recent(request_counts, Caller, now) + 1
               /\ request_counts'[Caller][Len(request_counts'[Caller])] = now
               /\ Recent(request_counts', Caller, now) =
                      Recent(request_counts, Caller, now) + 1]_vars

\* C29 witness: after a window of time had passed, the caller without
\* identity was admitted while the window of caller alice was full
C29_Witness ==
    /\ last.tool = "search"
    /\ last.kwargs["client_id"] = "unknown"
    /\ last.admitted
    /\ now = 60
    /\ Recent(request_counts, "alice", now) = 100
    /\ Len(request_counts["unknown"]) = 1

\* the request times of a caller's window that lie within the last 60 seconds
WindowOf(c) ==
    SelectSeq(IF c \in DOMAIN request_counts THEN request_counts[c] ELSE <<>>,
              LAMBDA t : t > now - 60)

\* the times at which calls of a caller were admitted within the last 60 seconds
AdmittedOf(c) == IF c \in DOMAIN admissions THEN admissions[c] ELSE <<>>

\* C21: however search and fetch invocations interleave at their awaits, a
\* caller's window holds, within the last 60 seconds, exactly one request
\* time for each admitted call of that caller, in the order of admission:
\* none is lost, none is duplicated, and never more than 100 calls of one
\* caller are admitted within one window.
C21_NoCorruption ==
    \A c \in DOMAIN request_counts \cup DOMAIN admissions :
        /\ WindowOf(c) = AdmittedOf(c)
        /\ Len(AdmittedOf(c)) <= 100

\* C21 witness: a call was rejected on a full window while two admitted
\* invocations were suspended in different DeviceRegistry calls
C21_Witness ==
    /\ last.tool # "none"
    /\ ~last.admitted
    /\ Len(AdmittedOf("unknown")) = 100
    /\ BagCardinality(tasks) = 2
    /\ Cardinality(BagToSet(tasks)) = 2

\* C28 as stated: an invocation never holds an API client on which
\* authenticate() has not completed successfully: no invocation is
\* suspended in a device-listing or snapshot request made on such a client,
\* and no device of the cached roster is bound to one.
C28_Original ==
    /\ \A task \in BagToSet(tasks) :
          task.pc \in {"get_devices", "update_properties"} => Authenticated(task.api)
    /\ \A i \in DOMAIN devices : Authenticated(devices[i].api)

\* the spellings of 'on' and of 'off', whatever the case of their letters
SpelledOn == {<<a, b>> : a \in {"o", "O"}, b \in {"n", "N"}}

SpelledOff == {<<a, b, c>> : a \in {"o", "O"}, b \in {"f", "F"}, c \in {"f", "F"}}

\* control_base_station was invoked
ControlInvoked == sanitized.text # "none"

\* the strings control_base_station returns when it reports an error
ControlErrors ==
    {"Invalid action. Please use 'on' or 'off'.", "Error controlling base station",
     "No devices found. Please check your Owlet account.",
     "Device with serial not found."}

\* the roster position of the device the call is about: the device with the
\* given serial, the first device when no serial was given, 0 when there is none
ResolvedTarget ==
    IF data.device_serial = <<>>
    THEN (IF devices # <<>> THEN 1 ELSE 0)
    ELSE IF \E i \in 1..Len(devices) : devices[i].serial = data.device_serial
    THEN CHOOSE i \in 1..Len(devices) : devices[i].serial = data.device_serial
    ELSE 0

\* C30: control_base_station sends a control command only when the action
\* is 'on' or 'off' in any case of letters and a target device was resolved
\* (the given serial is in the roster, or none was given and the first
\* device of a non-empty roster is used); it sends one command, to that
\* device, which turns the station on exactly when the action is 'on'; in
\* every other case no command is sent and an error string is returned; an
\* invalid action is rejected before any DeviceRegistry request.
C30_ControlGuard ==
    ControlInvoked =>
        /\ Len(sanitized.commands) <= 1
        /\ sanitized.commands # <<>> =>
              /\ data.action \in SpelledOn \cup SpelledOff
              /\ ResolvedTarget # 0
              /\ sanitized.commands[1].serial = devices[ResolvedTarget].serial
              /\ sanitized.commands[1].turn_on <=> data.action \in SpelledOn
        /\ (data.action \notin SpelledOn \cup SpelledOff \/ ResolvedTarget = 0) =>
              /\ sanitized.commands = <<>>
              /\ sanitized.text \in ControlErrors
        /\ data.action \notin SpelledOn \cup SpelledOff =>
              /\ sanitized.trace = <<>>
              /\ sanitized.text = "Invalid action. Please use 'on' or 'off'."

\* C30 witness: action 'ON' without serial on a roster of two devices sent
\* the command to turn on to the first device
C30_Witness ==
    /\ ControlInvoked
    /\ data.action = <<"O", "N">>
    /\ data.device_serial = <<>>
    /\ Len(devices) = 2
    /\ sanitized.commands = <<[serial |-> devices[1].serial, turn_on |-> TRUE]>>

====
